---- MODULE Spec2Model ----
(***************************************************************************)
(* Model of sqlitePorter (cordova-sqlite-porter): the Document -> SQL      *)
(* compiler of importJsonToDb, the statement tokenizer of importSqlToDb    *)
(* and the callback-chained import pipeline that drives the statements     *)
(* against the SQLite backend one at a time.                               *)
(*                                                                         *)
(* SQL text is a sequence of atoms.  An atom is either one special         *)
(* character (";", "'", "\"", "\\", "-", "/", "*", "_", "(", ")", the       *)
(* back-tick,                                                              *)
(* ",", "=", " ", "\n", "\r", "\t") or a phrase: a non-empty run of        *)
(* ordinary characters (letters, digits, brackets) without any blank or    *)
(* special character, such as a keyword or a name.  Every regular          *)
(* expression of the source only distinguishes the special characters and  *)
(* the keywords CREATE, INDEX and null, so it treats a phrase as it        *)
(* treats the run of letters the phrase stands for.                        *)
(***************************************************************************)
EXTENDS Integers, Sequences, FiniteSets, TLC

\* ------------------------------------------------------------------------
\* Bounds of the model
\* ------------------------------------------------------------------------
MaxRows == 3
MaxBatch == 3
MaxOther == 2

\* Most rows of the schema catalog (sqlite_master)
MaxCatalog == 3

\* ------------------------------------------------------------------------
\* Program constants
\* ------------------------------------------------------------------------
DEFAULT_BATCH_INSERT_SIZE == 250

separator == <<";", "\n">>

\* JavaScript values that are not strings
undefined == <<"<undefined>">>

null == <<"<null>">>

true == <<"<true>">>

false == <<"<false>">>

\* The back-tick character (an atom of its own)
backtick == "<backtick>"

\* ------------------------------------------------------------------------
\* Text helpers
\* ------------------------------------------------------------------------
IsWhitespace(a) == a \in {" ", "\n", "\r", "\t"}

IsQuote(a) == a \in {"'", "\""}

RECURSIVE Concat(_)
Concat(ss) == IF ss = <<>> THEN <<>> ELSE Head(ss) \o Concat(Tail(ss))

RECURSIVE SkipLeadingWs(_)
SkipLeadingWs(str) ==
    IF str # <<>> /\ IsWhitespace(Head(str)) THEN SkipLeadingWs(Tail(str)) ELSE str

RECURSIVE SkipTrailingWs(_)
SkipTrailingWs(str) ==
    IF str # <<>> /\ IsWhitespace(str[Len(str)])
    THEN SkipTrailingWs(SubSeq(str, 1, Len(str) - 1))
    ELSE str

\* trimWhitespace(str): str.replace(/^\s+/,"").replace(/\s+$/,"")
trimWhitespace(str) == SkipTrailingWs(SkipLeadingWs(str))

\* ------------------------------------------------------------------------
\* removeComments
\* ------------------------------------------------------------------------
\* First position from i on whose atom is in S; Len(sql) + 1 without one
First(sql, i, S) ==
    LET c == {j \in i..Len(sql) : sql[j] \in S}
    IN  IF c = {} THEN Len(sql) + 1 ELSE CHOOSE j \in c : \A k \in c : j <= k

\* End of the quoted alternative  q(qq|[^q])*q  whose body is scanned from
\* position i; lastPair is the start of the last doubled quote the greedy
\* scan consumed (the place backtracking closes the literal at when the
\* text ends before a closing quote), 0 when there is none.
RECURSIVE RcQuoteEnd(_, _, _, _)
RcQuoteEnd(sql, i, q, lastPair) ==
    LET j == First(sql, i, {q})
    IN  IF j > Len(sql) THEN lastPair
        ELSE IF j + 1 <= Len(sql) /\ sql[j + 1] = q
             THEN RcQuoteEnd(sql, j + 2, q, j)
             ELSE j

\* End of the line comment  --[^\n\r]*  that starts at position i
RcLineEnd(sql, i) == First(sql, i + 2, {"\n", "\r"}) - 1

\* End of the block comment  /\*[\w\W]*?\*/  that starts at position i;
\* 0 when the comment is never closed
RcBlockEnd(sql, i) ==
    LET c == {k \in (i + 2)..(Len(sql) - 1) : sql[k] = "*" /\ sql[k + 1] = "/"}
    IN  IF c = {} THEN 0 ELSE (CHOOSE k \in c : \A m \in c : k <= m) + 1

\* The replace from position i on: the text up to the next quote, dash or
\* slash is copied, then the alternatives are tried in the regex's order
RECURSIVE RcFrom(_, _)
RcFrom(sql, i) ==
    LET j == First(sql, i, {"'", "\"", "-", "/"})
    IN  IF j > Len(sql) THEN SubSeq(sql, i, Len(sql))
        ELSE SubSeq(sql, i, j - 1) \o
             (IF IsQuote(sql[j]) /\ RcQuoteEnd(sql, j + 1, sql[j], 0) # 0
              THEN LET e == RcQuoteEnd(sql, j + 1, sql[j], 0)
                   IN  SubSeq(sql, j, e) \o RcFrom(sql, e + 1)
              ELSE IF sql[j] = "-" /\ j + 1 <= Len(sql) /\ sql[j + 1] = "-"
              THEN RcFrom(sql, RcLineEnd(sql, j) + 1)
              ELSE IF sql[j] = "/" /\ j + 1 <= Len(sql) /\ sql[j + 1] = "*"
                      /\ RcBlockEnd(sql, j) # 0
              THEN RcFrom(sql, RcBlockEnd(sql, j) + 1)
              ELSE <<sql[j]>> \o RcFrom(sql, j + 1))

\* removeComments(sql): quoted literals are kept, comments replaced by ''
\* Mutant of removeComments: the line endings are stripped first
removeComments_lineEndings(sql) ==
    RcFrom(SelectSeq(sql, LAMBDA a : a \notin {"\n", "\r"}), 1)

removeComments(sql) == RcFrom(sql, 1)

\* ------------------------------------------------------------------------
\* statementRegEx
\* ------------------------------------------------------------------------
\* Position of the quote that closes  q(?:\\.|[^\\q])*q  when the body is
\* scanned from position i; 0 when the literal is not closed.  A backslash
\* takes the next character with it (any character but a line terminator).
RECURSIVE StQuoteEnd(_, _, _)
StQuoteEnd(sql, i, q) ==
    LET j == First(sql, i, {"\\", q})
    IN  IF j > Len(sql) THEN 0
        ELSE IF sql[j] = "\\"
             THEN IF j + 1 <= Len(sql) /\ sql[j + 1] \notin {"\n", "\r"}
                  THEN StQuoteEnd(sql, j + 2, q)
                  ELSE 0
        ELSE j

\* First position after the match of (?:[^;"']*(?:"..."|'...')?)* from i
RECURSIVE StMatchEnd(_, _)
StMatchEnd(sql, i) ==
    LET j == First(sql, i, {";", "'", "\""})
    IN  IF j > Len(sql) \/ sql[j] = ";" THEN j
        ELSE IF StQuoteEnd(sql, j + 1, sql[j]) = 0 THEN j
        ELSE StMatchEnd(sql, StQuoteEnd(sql, j + 1, sql[j]) + 1)

\* Atoms the lookahead (?!\s|;|$) rejects as the start of a match
Rejected == {" ", "\n", "\r", "\t", ";"}

\* sql.match(statementRegEx) with the g flag from position i on: a match
\* starts at the first atom the lookahead accepts; an empty match (at a quote
\* that is never closed) is part of the result and moves the scan one
\* character on.
RECURSIVE StMatchFrom(_, _)
StMatchFrom(sql, i) ==
    LET c == {j \in i..Len(sql) : sql[j] \notin Rejected}
    IN  IF c = {} THEN <<>>
        ELSE LET b == CHOOSE j \in c : \A k \in c : j <= k
                 e == StMatchEnd(sql, b)
             IN  IF e = b
                 THEN <<(<<>>)>> \o StMatchFrom(sql, b + 1)
                 ELSE <<SubSeq(sql, b, e - 1)>> \o StMatchFrom(sql, e)

statementRegEx(sql) == StMatchFrom(sql, 1)

\* "Strip empty statements": delete statements[i] leaves a hole (undefined)
\* in the array and does not change its length
stripEmpty(statements) ==
    [i \in DOMAIN statements |->
        IF statements[i] = <<>> THEN undefined ELSE statements[i]]

\* The statements array of a pipeline run, as built from the sql argument
tokenize(sql) == stripEmpty(statementRegEx(removeComments(sql)))

\* ------------------------------------------------------------------------
\* Escaper
\* ------------------------------------------------------------------------
\* String.prototype.toLowerCase on the phrases the source compares in lower
\* case ('null', /CREATE INDEX/i); other atoms are only compared as they are
LowerAtom(a) ==
    CASE a \in {"NULL", "Null", "null"} -> "null"
      [] a \in {"CREATE", "Create", "create"} -> "create"
      [] a \in {"INDEX", "Index", "index"} -> "index"
      [] OTHER -> a

toLowerCase(str) == [i \in DOMAIN str |-> LowerAtom(str[i])]

\* value + "" : a string stays as it is, null becomes the text null
stringify(value) ==
    IF value = null THEN <<"null">>
    ELSE IF value = undefined THEN <<"undefined">>
    ELSE IF value = true THEN <<"true">>
    ELSE IF value = false THEN <<"false">>
    ELSE value

\* sanitiseForSql(value): null for null/undefined, else every single quote
\* of the stringified value doubled
sanitiseForSql(value) ==
    IF value = null \/ value = undefined THEN null
    ELSE Concat([i \in DOMAIN stringify(value) |->
                    IF stringify(value)[i] = "'" THEN <<"'", "'">>
                    ELSE <<stringify(value)[i]>>])

\* sqlEscape(value): wrapped in back-ticks when it matches /[_-]+/
sqlEscape(value) ==
    IF \E i \in DOMAIN value : value[i] \in {"_", "-"}
    THEN <<backtick>> \o value \o <<backtick>>
    ELSE value

\* String.prototype.indexOf: the first position at which pat occurs in str,
\* 0 when it does not occur
indexOf(str, pat) ==
    LET hits == {i \in 1..(Len(str) - Len(pat) + 1) :
                    SubSeq(str, i, i + Len(pat) - 1) = pat}
    IN  IF hits = {} THEN 0 ELSE CHOOSE i \in hits : \A j \in hits : i <= j

\* str.replace(pat, rep) with a string pattern: the first occurrence only
replace(str, pat, rep) ==
    IF indexOf(str, pat) = 0 THEN str
    ELSE SubSeq(str, 1, indexOf(str, pat) - 1) \o rep
         \o SubSeq(str, indexOf(str, pat) + Len(pat), Len(str))

\* str.split(/ |\(/)[0]: the text before the first blank or parenthesis
splitHead(str) == SubSeq(str, 1, First(str, 1, {" ", "("}) - 1)

\* str.replace(/[^\S\r\n]/g, " "): every whitespace character other than a
\* line break becomes a blank
normaliseWhitespace(str) ==
    [i \in DOMAIN str |-> IF str[i] = "\t" THEN " " ELSE str[i]]

\* sqlUnescape(value): the text between the first pair of back-ticks that
\* encloses at least one character (/`([^`]+)`/), else the value itself
sqlUnescape(value) ==
    LET opens == {i \in DOMAIN value :
                    /\ value[i] = backtick
                    /\ i + 1 <= Len(value) /\ value[i + 1] # backtick
                    /\ \E j \in (i + 2)..Len(value) : value[j] = backtick}
    IN  IF opens = {} THEN value
        ELSE LET i == CHOOSE k \in opens : \A l \in opens : k <= l
             IN  SubSeq(value, i + 1, First(value, i + 1, {backtick}) - 1)

\* isReservedTable(tableName): the name matches /^sqlite_/
isReservedTable(tableName) ==
    Len(tableName) >= 2 /\ tableName[1] = "sqlite" /\ tableName[2] = "_"

\* ------------------------------------------------------------------------
\* Compiler: Document -> mainSql, createIndexSql  (importJsonToDb)
\* ------------------------------------------------------------------------
KeyNames == {"structure", "tables", "otherSQL", "data", "inserts", "updates", "deletes"}

\* Mutant of TablesSql: the table is created before it is dropped
TablesSql_createFirst(tables) ==
    Concat([i \in DOMAIN tables |->
        <<"CREATE", " ", "TABLE", " ">>
            \o sqlEscape(tables[i].name) \o tables[i].clause \o separator
        \o <<"DROP", " ", "TABLE", " ", "IF", " ", "EXISTS", " ">>
            \o sqlEscape(tables[i].name) \o separator])

\* json.structure.tables: DROP TABLE IF EXISTS + CREATE TABLE per table
TablesSql(tables) ==
    Concat([i \in DOMAIN tables |->
        <<"DROP", " ", "TABLE", " ", "IF", " ", "EXISTS", " ">>
            \o sqlEscape(tables[i].name) \o separator
        \o <<"CREATE", " ", "TABLE", " ">>
            \o sqlEscape(tables[i].name) \o tables[i].clause \o separator])

\* command.match(/CREATE INDEX/i)
matchesCreateIndex(command) ==
    \E i \in 1..(Len(command) - 2) :
        /\ LowerAtom(command[i]) = "create"
        /\ command[i + 1] = " "
        /\ LowerAtom(command[i + 2]) = "index"

\* The otherSQL commands appended to mainSql
OtherMainSql(otherSQL) ==
    Concat([i \in DOMAIN otherSQL |->
        IF matchesCreateIndex(otherSQL[i]) THEN <<>> ELSE otherSQL[i] \o separator])

\* The otherSQL commands appended to createIndexSql
OtherIndexSql(otherSQL) ==
    Concat([i \in DOMAIN otherSQL |->
        IF matchesCreateIndex(otherSQL[i]) THEN otherSQL[i] \o separator ELSE <<>>])

\* opts.batchInsertSize ? opts.batchInsertSize : DEFAULT_BATCH_INSERT_SIZE
\* (0 stands for an option that is not supplied)
batchInsertSize(opts) ==
    IF opts.batchInsertSize # 0 THEN opts.batchInsertSize ELSE DEFAULT_BATCH_INSERT_SIZE

\* typeof _values[j] === "undefined" || _values[j] === null
\*     || _values[j].toLowerCase() == 'null'
IsNullValue(v) == v = undefined \/ v = null \/ toLowerCase(v) = <<"null">>

\* The value of one field in a SELECT list: NULL, or the sanitised value
\* between single quotes
selectValue(value) ==
    IF IsNullValue(sanitiseForSql(value)) THEN <<"NULL">>
    ELSE <<"'">> \o sanitiseForSql(value) \o <<"'">>

\* _fields joined with ", "
RECURSIVE FieldList(_, _)
FieldList(row, j) ==
    IF j > Len(row) THEN <<>>
    ELSE (IF j = 1 THEN <<>> ELSE <<",", " ">>) \o row[j].col \o FieldList(row, j + 1)

\* First row of a batch: INSERT OR REPLACE INTO t(cols) SELECT v AS 'c', ...
InsertSelect(tableName, row) ==
    <<"INSERT", " ", "OR", " ", "REPLACE", " ", "INTO", " ">> \o sqlEscape(tableName)
    \o <<"(">> \o FieldList(row, 1) \o <<")", " ", "SELECT">>
    \o Concat([j \in DOMAIN row |->
          <<" ">> \o selectValue(row[j].val) \o <<" ", "AS", " ", "'">> \o row[j].col \o <<"'">>
          \o (IF j < Len(row) THEN <<",">> ELSE <<>>)])

\* Later row of a batch:  UNION SELECT v, ...
UnionSelect(row) ==
    <<" ", "UNION", " ", "SELECT", " ">>
    \o Concat([j \in DOMAIN row |->
          <<" ">> \o selectValue(row[j].val)
          \o (IF j < Len(row) THEN <<",">> ELSE <<>>)])

\* The loop over json.data.inserts[tableName] from row i on, _count rows in
\* the open batch
RECURSIVE InsertRowsSql(_, _, _, _, _)
InsertRowsSql(tableName, rows, i, count, size) ==
    IF i > Len(rows) THEN <<>>
    ELSE LET c == IF count = size THEN 0 ELSE count
         IN  (IF count = size THEN separator ELSE <<>>)
             \o (IF c = 0 THEN InsertSelect(tableName, rows[i]) ELSE UnionSelect(rows[i]))
             \o InsertRowsSql(tableName, rows, i + 1, c + 1, size)

\* json.data.inserts
InsertsSql(inserts, size) ==
    Concat([t \in DOMAIN inserts |->
        InsertRowsSql(inserts[t].table, inserts[t].rows, 1, 0, size) \o separator])

\* col='val' terms joined by the given first and later keywords
RECURSIVE Terms(_, _, _, _)
Terms(row, j, first, later) ==
    IF j > Len(row) THEN <<>>
    ELSE (IF j = 1 THEN first ELSE later)
         \o row[j].col \o <<"=", "'">> \o stringify(sanitiseForSql(row[j].val)) \o <<"'">>
         \o Terms(row, j + 1, first, later)

\* json.data.deletes
DeletesSql(deletes) ==
    Concat([t \in DOMAIN deletes |->
        Concat([i \in DOMAIN deletes[t].entries |->
            <<"DELETE", " ", "FROM", " ">> \o sqlEscape(deletes[t].table)
            \o Terms(deletes[t].entries[i], 1, <<" ", "WHERE", " ">>, <<" ", "AND", " ">>)
            \o separator])])

\* Mutant of UpdatesSql: the terms of the set clause are joined by AND
UpdatesSql_and(updates) ==
    Concat([t \in DOMAIN updates |->
        Concat([i \in DOMAIN updates[t].entries |->
            <<"UPDATE", " ">> \o sqlEscape(updates[t].table)
            \o Terms(updates[t].entries[i].set, 1, <<" ", "SET", " ">>, <<" ", "AND", " ">>)
            \o Terms(updates[t].entries[i].where, 1, <<" ", "WHERE", " ">>, <<" ", "AND", " ">>)
            \o separator])])

\* json.data.updates
UpdatesSql(updates) ==
    Concat([t \in DOMAIN updates |->
        Concat([i \in DOMAIN updates[t].entries |->
            <<"UPDATE", " ">> \o sqlEscape(updates[t].table)
            \o Terms(updates[t].entries[i].set, 1, <<" ", "SET", " ">>, <<",", " ">>)
            \o Terms(updates[t].entries[i].where, 1, <<" ", "WHERE", " ">>, <<" ", "AND", " ">>)
            \o separator])])

\* The structure part of mainSql (nothing when json.structure is missing)
StructureMainSql(json) ==
    IF "structure" \notin json.keys THEN <<>>
    ELSE (IF "tables" \in json.keys THEN TablesSql(json.tables) ELSE <<>>)
         \o (IF "otherSQL" \in json.keys THEN OtherMainSql(json.otherSQL) ELSE <<>>)

\* The try block of importJsonToDb up to the start of the import: reading
\* json.data.inserts throws a TypeError when json.data is missing
compile(json, opts) ==
    IF "data" \notin json.keys
    THEN [threw |-> TRUE, message |-> <<"TypeError: json.data is undefined">>,
          mainSql |-> <<>>, createIndexSql |-> <<>>]
    ELSE [threw |-> FALSE, message |-> <<>>,
          mainSql |->
              StructureMainSql(json)
              \o (IF "inserts" \in json.keys
                  THEN InsertsSql(json.inserts, batchInsertSize(opts)) ELSE <<>>)
              \o (IF "deletes" \in json.keys THEN DeletesSql(json.deletes) ELSE <<>>)
              \o (IF "updates" \in json.keys THEN UpdatesSql(json.updates) ELSE <<>>),
          createIndexSql |->
              IF "structure" \in json.keys /\ "otherSQL" \in json.keys
              THEN OtherIndexSql(json.otherSQL) ELSE <<>>]

\* ------------------------------------------------------------------------
\* Export walker: catalog rows and table rows -> SQL text or Document
\* (exportDbToSql, exportDbToJson) and the DROP statements of wipeDb
\* ------------------------------------------------------------------------
CreateTable == <<"CREATE", " ", "TABLE">>

DoubleUnderscore == <<"_", "_">>

\* array.join(sep)
join(array, sep) ==
    IF array = <<>> THEN <<>>
    ELSE array[1] \o Concat([i \in 1..(Len(array) - 1) |-> sep \o array[i + 1]])

\* createFilters(tables): the condition  tbl_name IN ('a','b' )  or the empty
\* string when no table is named
createFilters(tables) ==
    IF ~tables.supplied \/ Len(tables.names) = 0 THEN <<>>
    ELSE <<"tbl", "_", "name", " ", "IN", " ", "(">>
         \o Tail(Concat([i \in DOMAIN tables.names |->
                            <<",", "'">> \o tables.names[i] \o <<"'">>]))
         \o <<" ", ")", " ">>

\* The catalog query for the sql column
MasterSqlQuery(filters) ==
    <<"SELECT", " ", "sql", " ", "FROM", " ", "sqlite", "_", "master">>
    \o (IF filters # <<>> THEN <<" ", "WHERE", " ">> \o filters ELSE <<>>)

\* The catalog query for the table names
TblNameQuery(filters) ==
    <<"SELECT", " ", "tbl", "_", "name", " ", "from", " ", "sqlite", "_", "master", " ",
      "WHERE", " ", "type", " ", "=", " ", "'", "table", "'">>
    \o (IF filters # <<>> THEN <<" ", "AND", " ">> \o filters ELSE <<>>)

\* The catalog query of wipeDb
WipeQuery == <<"SELECT", " ", "sql", " ", "FROM", " ", "sqlite", "_", "master", ";">>

\* The row query of exportTables
RowsQuery(tableName) ==
    <<"SELECT", " ", "*", " ", "FROM", " ">> \o sqlEscape(tableName)

\* The table name the source reads from the sql of a CREATE TABLE row
tableNameOf(rowSql) ==
    sqlUnescape(trimWhitespace(splitHead(trimWhitespace(replace(rowSql, CreateTable, <<>>)))))

DropTable(tableName) ==
    <<"DROP", " ", "TABLE", " ", "IF", " ", "EXISTS", " ">> \o sqlEscape(tableName)

\* Mutant of sqlStatementsOfRow: isReservedTable is not asked
sqlStatementsOfRow_anyTable(rowSql) ==
    IF rowSql = null \/ indexOf(rowSql, DoubleUnderscore) # 0 THEN <<>>
    ELSE IF indexOf(rowSql, CreateTable) # 0
    THEN <<DropTable(tableNameOf(rowSql)), rowSql>>
    ELSE <<rowSql>>

\* exportDbToSql: the statements one catalog row adds to sqlStatements
sqlStatementsOfRow(rowSql) ==
    IF rowSql = null \/ indexOf(rowSql, DoubleUnderscore) # 0 THEN <<>>
    ELSE IF indexOf(rowSql, CreateTable) # 0
    THEN IF ~isReservedTable(tableNameOf(rowSql))
         THEN <<DropTable(tableNameOf(rowSql)), rowSql>>
         ELSE <<>>
    ELSE <<rowSql>>

\* exportDbToSql: sqlStatements for the rows of the first catalog query
sqlStatements(rows, dataOnly) ==
    IF dataOnly THEN <<>>
    ELSE Concat([i \in DOMAIN rows |-> sqlStatementsOfRow(rows[i])])

\* exportDbToSql: the text the structure statements add to exportSQL
structureSql(statements) ==
    Concat([j \in DOMAIN statements |-> normaliseWhitespace(statements[j]) \o separator])

\* exportDbToJson: whether a catalog row is stored as a table / as otherSQL
isTableRow(rowSql) ==
    /\ rowSql # null /\ indexOf(rowSql, DoubleUnderscore) = 0
    /\ indexOf(rowSql, CreateTable) # 0
    /\ ~isReservedTable(tableNameOf(rowSql))

isOtherRow(rowSql) ==
    /\ rowSql # null /\ indexOf(rowSql, DoubleUnderscore) = 0
    /\ indexOf(rowSql, CreateTable) = 0

\* exportDbToJson: the value stored under json.structure.tables[tableName]
tableStructure(rowSql) ==
    normaliseWhitespace(trimWhitespace(
        replace(rowSql, CreateTable \o <<" ">> \o tableNameOf(rowSql), <<>>)))

\* exportDbToJson: json.structure.tables, in insertion order
structureTables(rows) ==
    Concat([i \in DOMAIN rows |->
               IF isTableRow(rows[i])
               THEN <<[name |-> tableNameOf(rows[i]), clause |-> tableStructure(rows[i])]>>
               ELSE <<>>])

\* exportDbToJson: json.structure.otherSQL
structureOtherSQL(rows) ==
    Concat([i \in DOMAIN rows |->
               IF isOtherRow(rows[i]) THEN <<normaliseWhitespace(rows[i])>> ELSE <<>>])

\* Mutant of sqlTablesOf: the tables are walked from the last to the first
sqlTablesOf_reversed(names, operation) ==
    LET kept == SelectSeq(names, LAMBDA tableName :
                    /\ indexOf(tableName, DoubleUnderscore) = 0
                    /\ (operation = "exportDbToSql" => ~isReservedTable(tableName)))
    IN  [i \in DOMAIN kept |-> kept[Len(kept) + 1 - i]]

\* The names the second catalog query's callback puts into sqlTables:
\* exportDbToSql leaves out reserved tables, exportDbToJson does not
sqlTablesOf(names, operation) ==
    SelectSeq(names, LAMBDA tableName :
        /\ indexOf(tableName, DoubleUnderscore) = 0
        /\ (operation = "exportDbToSql" => ~isReservedTable(tableName)))

\* exportDbToSql: the INSERT statement of one row, with its separator
rowInsertSql(tableName, dataRow) ==
    <<"INSERT", " ", "OR", " ", "REPLACE", " ", "INTO", " ">> \o sqlEscape(tableName)
    \o <<"(">> \o join([c \in DOMAIN dataRow |-> sqlEscape(dataRow[c].col)], <<",">>)
    \o <<")", " ", "VALUES", " ", "(">>
    \o join([c \in DOMAIN dataRow |->
                IF dataRow[c].val = null THEN <<"NULL">>
                ELSE <<"'">> \o sanitiseForSql(dataRow[c].val) \o <<"'">>], <<",">>)
    \o <<")">> \o separator

\* dataRowToJsonData(data)
dataRowToJsonData(data) ==
    IF data = null \/ data = <<"null">> THEN null
    ELSE IF data = undefined \/ data = <<"undefined">> THEN undefined
    ELSE IF data = true \/ data = <<"true">> THEN true
    ELSE IF data = false \/ data = <<"false">> THEN false
    ELSE data

\* exportDbToJson: the row object of one row
rowToJson(dataRow) ==
    [c \in DOMAIN dataRow |->
        [col |-> dataRow[c].col, val |-> dataRowToJsonData(dataRow[c].val)]]

\* wipeDb: dropStatements for the rows of the catalog query
dropStatements(rows) ==
    Concat([i \in DOMAIN rows |->
               IF /\ rows[i] # null /\ indexOf(rows[i], CreateTable) # 0
                  /\ indexOf(rows[i], DoubleUnderscore) = 0
                  /\ ~isReservedTable(tableNameOf(rows[i]))
               THEN <<DropTable(tableNameOf(rows[i]))>>
               ELSE <<>>])

\* ------------------------------------------------------------------------
\* Inputs: Documents, SQL texts and options the caller may pass
\* ------------------------------------------------------------------------
Artist == <<"Artist">>

Album == <<"Album">>

TrackList == <<"Track", "_", "List">>

SqliteSequence == <<"sqlite", "_", "sequence">>

InfoTable == <<"_", "_", "WebKitDatabaseInfoTable", "_", "_">>

Venue == <<"Venue">>

ColumnClause == <<"(", "Id", ",", " ", "Title", ")">>

Field(c, v) == [col |-> <<c>>, val |-> v]

\* A field whose name is more than one atom
FieldOf(col, v) == [col |-> col, val |-> v]

CreateIndexCmd ==
    <<"CREATE", " ", "INDEX", " ", "ArtistId", " ", "ON", " ", "Artist", "(", "Id", ")">>

CreateIndexLowerCmd ==
    <<"create", " ", "index", " ", "ArtistTitle", " ", "on", " ", "Artist", "(", "Title", ")">>

CreateUniqueIndexCmd ==
    <<"CREATE", " ", "UNIQUE", " ", "INDEX", " ", "Artist", "_", "ID", " ", "ON", " ",
      "Artist", "(", "Id", ")">>

CreateViewCmd ==
    <<"CREATE", " ", "VIEW", " ", "Titles", " ", "AS", " ", "SELECT", " ", "Title", " ",
      "FROM", " ", "Artist">>

Commands == {CreateIndexCmd, CreateIndexLowerCmd, CreateUniqueIndexCmd, CreateViewCmd}

SeqsUpTo(S, n) == UNION {[1..k -> S] : k \in 0..n}

Doc(keys, tables, otherSQL, inserts, updates, deletes) ==
    [keys |-> keys, tables |-> tables, otherSQL |-> otherSQL,
     inserts |-> inserts, updates |-> updates, deletes |-> deletes]

\* The key sets a Document can have: a section's keys need the section
KeySets ==
    {K \in SUBSET KeyNames :
        /\ (K \cap {"tables", "otherSQL"} # {}) => "structure" \in K
        /\ (K \cap {"inserts", "updates", "deletes"} # {}) => "data" \in K}

\* Documents with every combination of keys, each present key with one entry
ShapeDocs ==
    {Doc(K,
         IF "tables" \in K THEN <<[name |-> Artist, clause |-> ColumnClause]>> ELSE <<>>,
         IF "otherSQL" \in K THEN <<CreateIndexCmd>> ELSE <<>>,
         IF "inserts" \in K
         THEN <<[table |-> Artist,
                 rows |-> <<(<<Field("Id", <<"1">>), Field("Title", <<"Fred">>)>>)>>]>>
         ELSE <<>>,
         IF "updates" \in K
         THEN <<[table |-> Artist,
                 entries |-> <<[set |-> <<Field("Title", <<"Susan">>)>>,
                                where |-> <<Field("Id", <<"2">>)>>]>>]>>
         ELSE <<>>,
         IF "deletes" \in K
         THEN <<[table |-> Artist, entries |-> <<(<<Field("Id", <<"5">>)>>)>>]>>
         ELSE <<>>) : K \in KeySets}

\* What follows the row number in a Title value: nothing, or a backslash
\* (a path such as C:\dir\ ends in one)
Payloads == {<<>>, <<"\\">>}

\* Row sequences of a table: row i carries the Title  i <payload>
RowSeqs ==
    {[i \in DOMAIN ps |-> <<Field("Title", <<ToString(i)>> \o ps[i])>>] :
        ps \in SeqsUpTo(Payloads, MaxRows)}

\* Documents with insert rows for Artist and, possibly, a second table
BatchDocs ==
    {Doc({"data", "inserts"}, <<>>, <<>>,
         <<[table |-> Artist, rows |-> rs]>> \o second, <<>>, <<>>) :
        rs \in RowSeqs,
        second \in {<<>>,
                    <<[table |-> Album, rows |-> <<>>]>>,
                    <<[table |-> Album, rows |-> <<(<<Field("Title", <<"Hits">>)>>)>>]>>}}

\* Documents with a table, two insert rows and otherSQL commands
OtherDocs ==
    {Doc({"structure", "tables", "otherSQL", "data", "inserts"},
         <<[name |-> Artist, clause |-> ColumnClause]>>, cmds,
         <<[table |-> Artist,
            rows |-> <<(<<Field("Id", <<"1">>)>>), (<<Field("Id", <<"2">>)>>)>>]>>,
         <<>>, <<>>) : cmds \in SeqsUpTo(Commands, MaxOther)}

\* Documents whose structure.tables names a reserved table, alone or after
\* Artist
ReservedDocs ==
    {Doc({"structure", "tables", "data"},
         first \o <<[name |-> SqliteSequence,
                     clause |-> <<"(", "name", ",", "seq", ")">>]>>,
         <<>>, <<>>, <<>>, <<>>) :
        first \in {<<>>, <<[name |-> Artist, clause |-> ColumnClause]>>}}

\* A Document with two tables and data for both
TwoTableDocs ==
    {Doc({"structure", "tables", "data", "inserts", "updates", "deletes"},
         <<[name |-> Artist, clause |-> ColumnClause],
           [name |-> TrackList, clause |-> <<"(", "Id", ",", "Done", ")">>]>>,
         <<>>,
         <<[table |-> Artist, rows |-> <<(<<Field("Id", <<"1">>)>>)>>],
           [table |-> TrackList, rows |-> <<(<<Field("Id", <<"7">>)>>)>>]>>,
         <<[table |-> Artist,
            entries |-> <<[set |-> <<Field("Title", <<"Susan">>)>>,
                           where |-> <<Field("Id", <<"2">>)>>]>>]>>,
         <<[table |-> TrackList, entries |-> <<(<<Field("Id", <<"5">>)>>)>>]>>)}

\* A Document whose table and column names hold an underscore or a hyphen
DelimitedDocs ==
    {Doc({"structure", "tables", "data", "inserts", "updates", "deletes"},
         <<[name |-> TrackList,
            clause |-> <<"(", backtick, "first", "_", "name", backtick, ")">>]>>,
         <<>>,
         <<[table |-> TrackList,
            rows |-> <<(<<FieldOf(<<"first", "_", "name">>, <<"Fred">>)>>)>>]>>,
         <<[table |-> TrackList,
            entries |-> <<[set |-> <<FieldOf(<<"first", "_", "name">>, <<"Susan">>)>>,
                           where |-> <<FieldOf(<<"track", "-", "id">>, <<"2">>)>>]>>]>>,
         <<[table |-> TrackList,
            entries |-> <<(<<FieldOf(<<"track", "-", "id">>, <<"5">>)>>)>>]>>)}

\* A Document with a table whose name holds a back-tick:  a`b_c
BacktickDocs ==
    {Doc({"structure", "tables", "data"},
         <<[name |-> <<"a", backtick, "b", "_", "c">>, clause |-> <<"(", "Id", ")">>]>>,
         <<>>, <<>>, <<>>, <<>>)}

\* Documents with a delete entry without fields ({}) or an update entry
\* whose where object has no fields ({} or missing: the loop over it has no
\* turn either way), next to an entry with a condition
UnconditionalDocs ==
    {Doc({"data", "deletes"}, <<>>, <<>>, <<>>, <<>>,
         <<[table |-> Artist, entries |-> <<(<<>>), (<<Field("Id", <<"5">>)>>)>>]>>),
     Doc({"data", "updates"}, <<>>, <<>>, <<>>,
         <<[table |-> Artist,
            entries |-> <<[set |-> <<Field("Title", <<"Susan">>)>>, where |-> <<>>],
                          [set |-> <<Field("Title", <<"Fred">>)>>,
                           where |-> <<Field("Id", <<"2">>)>>]>>]>>,
         <<>>)}

\* The scalars of a field: a text, null, an absent value and the text null
\* in lower and in upper case
Scalars == {<<"Susan">>, null, undefined, <<"null">>, <<"NULL">>}

\* Documents with the scalar v in two insert rows, in the set and where
\* objects of an update entry and in a delete entry, next to entries with
\* two fields and tables with two entries
ValueDocs ==
    {Doc({"data", "inserts", "updates", "deletes"}, <<>>, <<>>,
         <<[table |-> Artist,
            rows |-> <<(<<Field("Id", <<"1">>), Field("Title", v)>>),
                       (<<Field("Id", <<"2">>), Field("Title", v)>>)>>]>>,
         <<[table |-> Artist,
            entries |-> <<[set |-> <<Field("Title", v), Field("Born", <<"1970">>)>>,
                           where |-> <<Field("Id", <<"2">>), Field("Title", v)>>],
                          [set |-> <<Field("Title", <<"Susan">>)>>,
                           where |-> <<Field("Id", <<"2">>)>>]>>]>>,
         <<[table |-> Artist,
            entries |-> <<(<<Field("Id", <<"5">>), Field("Title", v)>>),
                          (<<Field("Id", <<"5">>)>>)>>],
           [table |-> Album, entries |-> <<(<<Field("Id", <<"6">>)>>)>>]>>) :
        v \in Scalars}

NoDoc == Doc({}, <<>>, <<>>, <<>>, <<>>, <<>>)

\* JSON texts for importJsonToDb:
\*   {"data":{"inserts":{"Artist":[{"Id":"1"}]}}}
DataJsonText ==
    <<"{", "\"", "data", "\"", ":", "{", "\"", "inserts", "\"", ":", "{", "\"", "Artist", "\"",
      ":", "[", "{", "\"", "Id", "\"", ":", "\"", "1", "\"", "}", "]", "}", "}", "}">>

\*   {"structure":{"tables":{"Artist":"(Id, Title)"}}}
StructureJsonText ==
    <<"{", "\"", "structure", "\"", ":", "{", "\"", "tables", "\"", ":", "{", "\"", "Artist",
      "\"", ":", "\"">> \o ColumnClause \o <<"\"", "}", "}", "}">>

\*   {'data':{}}   (JSON has no single-quoted strings)
SingleQuotedJsonText == <<"{", "'", "data", "'", ":", "{", "}", "}">>

\*   {"data":      (cut short)
TruncatedJsonText == <<"{", "\"", "data", "\"", ":">>

JsonTexts == {DataJsonText, StructureJsonText, SingleQuotedJsonText, TruncatedJsonText}

\* JSON.parse(text) on the texts above: the value, or a SyntaxError
JSONparse(text) ==
    CASE text = DataJsonText ->
            [threw |-> FALSE, message |-> <<>>,
             value |-> Doc({"data", "inserts"}, <<>>, <<>>,
                           <<[table |-> Artist, rows |-> <<(<<Field("Id", <<"1">>)>>)>>]>>,
                           <<>>, <<>>)]
      [] text = StructureJsonText ->
            [threw |-> FALSE, message |-> <<>>,
             value |-> Doc({"structure", "tables"},
                           <<[name |-> Artist, clause |-> ColumnClause]>>,
                           <<>>, <<>>, <<>>, <<>>)]
      [] text = SingleQuotedJsonText ->
            [threw |-> TRUE, value |-> NoDoc,
             message |-> <<"SyntaxError: Unexpected token ' in JSON at position 1">>]
      [] OTHER ->
            [threw |-> TRUE, value |-> NoDoc,
             message |-> <<"SyntaxError: Unexpected end of JSON input">>]

\*   a '--x';b "//" -- c
\*   ;d
MarkersText ==
    <<"a", " ", "'", "-", "-", "x", "'", ";", "b", " ", "\"", "/", "/", "\"", " ",
      "-", "-", " ", "c", "\n", ";", "d">>

\*   a "/* x */" /* it's; */;b 'x
\*   y';
LineBreakText ==
    <<"a", " ", "\"", "/", "*", " ", "x", " ", "*", "/", "\"", " ",
      "/", "*", " ", "it", "'", "s", ";", " ", "*", "/", ";",
      "b", " ", "'", "x", "\n", "y", "'", ";">>

\*   'it''s -- ';"q""/*" -- "
\*   ;c
DoubledQuoteText ==
    <<"'", "it", "'", "'", "s", " ", "-", "-", " ", "'", ";",
      "\"", "q", "\"", "\"", "/", "*", "\"", " ", "-", "-", " ", "\"", "\r", "\n", ";", "c">>

\* SQL texts for importSqlToDb
SqlTexts ==
    {<<>>, MarkersText, LineBreakText, DoubledQuoteText,
     <<"a", ";", "b">>,
     <<"a", ";", ";", "\n", "b", ";", "\n">>,
     <<"a", " ", "'", "x", ";", "y", "'", ";", " ", "b", " ", "-", "-", " ", "c", "\n", ";", "d">>,
     <<"a", ";", "\"", "b">>,
     <<"a", " ", "'", "C:", "\\", "'", ";", "b", ";">>}

Callbacks ==
    [successFn : BOOLEAN, errorFn : BOOLEAN, progressFn : BOOLEAN]

\* The export operations read successFn only; errorFn may be supplied
ExportCallbacks == {cb \in Callbacks : ~cb.progressFn}

\* opts.tables: not supplied, or a list of table names
NoTables == [supplied |-> FALSE, names |-> <<>>]

TableLists ==
    {NoTables} \cup {[supplied |-> TRUE, names |-> ns] : ns \in {<<>>, <<Artist>>, <<Artist, TrackList>>}}

\* opts of the export operations and of wipeDb
ExportOpts(cb, dataOnly, structureOnly, tables, onError) ==
    [successFn |-> cb.successFn, errorFn |-> cb.errorFn, progressFn |-> cb.progressFn,
     batchInsertSize |-> 0, onError |-> onError,
     dataOnly |-> dataOnly, structureOnly |-> structureOnly, tables |-> tables]

\* opts: the callbacks, batchInsertSize, and the onError key isValidDB reads
Opts(cb, size, onError) ==
    [successFn |-> cb.successFn, errorFn |-> cb.errorFn, progressFn |-> cb.progressFn,
     batchInsertSize |-> size, onError |-> onError,
     dataOnly |-> FALSE, structureOnly |-> FALSE, tables |-> NoTables]

NoRow == [type |-> "", name |-> <<>>, tbl_name |-> <<>>, sql |-> <<>>, rows |-> <<>>]

\* A row of sqlite_master, with the rows of the table when it is one
MasterRow(type, name, tableName, rowSql, rows) ==
    [type |-> type, name |-> name, tbl_name |-> tableName, sql |-> rowSql, rows |-> rows]

\* CREATE TABLE Artist(Id, Title): a text, a NULL and the texts null and NULL
ArtistRow ==
    MasterRow("table", Artist, Artist, CreateTable \o <<" ">> \o Artist \o ColumnClause,
              <<(<<Field("Id", <<"1">>), Field("Title", <<"Fred">>)>>),
                (<<Field("Id", <<"2">>), Field("Title", null)>>),
                (<<Field("Id", <<"3">>), Field("Title", <<"null">>)>>),
                (<<Field("Id", <<"4">>), Field("Title", <<"NULL">>)>>)>>)

\* A table whose name is stored delimited, with a tab in the column clause
TrackListRow ==
    MasterRow("table", TrackList, TrackList,
              CreateTable \o <<" ", backtick>> \o TrackList
              \o <<backtick, " ", "(", "Id", ",", "\t", "Done", ")">>,
              <<(<<Field("Id", <<"7">>), Field("Done", <<"true">>)>>),
                (<<Field("Id", <<"8">>), Field("Done", <<"false">>)>>),
                (<<Field("Id", <<"9">>), Field("Done", <<"undefined">>)>>)>>)

\* The table SQLite keeps for AUTOINCREMENT columns
SqliteSequenceRow ==
    MasterRow("table", SqliteSequence, SqliteSequence,
              CreateTable \o <<" ">> \o SqliteSequence \o <<"(", "name", ",", "seq", ")">>,
              <<(<<Field("name", <<"Artist">>), Field("seq", <<"2">>)>>)>>)

\* The table WebKit keeps in every Web SQL database
InfoTableRow ==
    MasterRow("table", InfoTable, InfoTable,
              CreateTable \o <<" ">> \o InfoTable \o <<" ", "(", "key", ",", "value", ")">>,
              <<(<<Field("key", <<"WebKitDatabaseVersionKey">>), Field("value", <<>>)>>)>>)

\* A table with a double underscore in a column name
VenueRow ==
    MasterRow("table", Venue, Venue,
              CreateTable \o <<" ">> \o Venue \o <<"(", "Id", ",", "long", "_", "_", "name", ")">>,
              <<(<<Field("Id", <<"3">>), FieldOf(<<"long", "_", "_", "name">>, <<"O", "'", "Neill">>)>>)>>)

ArtistIndexRow == MasterRow("index", <<"ArtistId">>, Artist, CreateIndexCmd, <<>>)

\* The index SQLite creates for a PRIMARY KEY: its sql is NULL
AutoIndexRow ==
    MasterRow("index", <<"sqlite", "_", "autoindex", "_", "Artist", "_", "1">>, Artist,
              null, <<>>)

CatalogRows ==
    <<ArtistRow, TrackListRow, SqliteSequenceRow, InfoTableRow, VenueRow,
      ArtistIndexRow, AutoIndexRow>>

\* The catalogs: the rows of CatalogRows at up to MaxCatalog positions
Catalogs ==
    {SelectSeq([i \in DOMAIN CatalogRows |-> IF i \in P THEN CatalogRows[i] ELSE NoRow],
               LAMBDA r : r # NoRow) :
        P \in {Q \in SUBSET DOMAIN CatalogRows : Cardinality(Q) <= MaxCatalog}}

\* Error messages the backend may report for a statement
BackendErrors == {<<"syntax error">>}

\* ------------------------------------------------------------------------
\* State
\* ------------------------------------------------------------------------
VARIABLES
    db,      \* whether the db argument is a database (has a transaction function)
    catalog, \* the rows of sqlite_master in the database, with the tables' rows
    op,      \* the operation the caller invokes
    jsonText, \* the json argument of importJsonToDb when it is a string,
             \* undefined when it is an object
    json,    \* the Document argument of importJsonToDb (after JSON.parse)
    sql,     \* the sql argument of importSqlToDb
    opts,    \* the caller's opts
    pc,      \* "start" before the call, "returned" after it, "thrown" when
             \* the call threw to the caller
    runs,    \* the pipeline runs (importSqlToDb invocations), in start order
    walk,    \* the state of exportDbToSql / exportDbToJson / wipeDb
    trace    \* history: statements submitted, backend results, callbacks

vars == <<db, catalog, op, jsonText, json, sql, opts, pc, runs, walk, trace>>

\* The arguments of the call
args == <<db, catalog, op, jsonText, sql, opts>>

Ev(e, r, c, t, st, m) ==
    [ev |-> e, run |-> r, count |-> c, total |-> t, statement |-> st, message |-> m]

\* A pipeline run before the backend has invoked the transaction callback
NewRun(kind, text, mainTotalCount) ==
    [kind |-> kind, sql |-> text, state |-> "Pending", statements |-> <<>>,
     totalCount |-> 0, currentCount |-> 0, statement |-> <<>>, inflight |-> FALSE,
     mainTotalCount |-> mainTotalCount]

\* The export state before the operation has started
NoWalk ==
    [state |-> "None", step |-> "", query |-> <<>>, exportSQL |-> <<>>, json |-> NoDoc,
     statementCount |-> 0, sqlTables |-> <<>>, n |-> 0]

Init ==
    /\ \/ /\ db = TRUE
          /\ op = "importJsonToDb"
          /\ sql = <<>>
          /\ catalog = <<>>
          /\ \E cb \in Callbacks :
                \/ /\ json \in ShapeDocs \cup OtherDocs \cup ReservedDocs \cup TwoTableDocs
                                 \cup ValueDocs \cup DelimitedDocs \cup BacktickDocs
                                 \cup UnconditionalDocs
                   /\ jsonText = undefined
                   /\ opts = Opts(cb, 0, FALSE)
                \/ /\ json \in BatchDocs
                   /\ jsonText = undefined
                   /\ \E size \in 0..MaxBatch : opts = Opts(cb, size, FALSE)
                \/ /\ json = NoDoc
                   /\ jsonText \in JsonTexts
                   /\ opts = Opts(cb, 0, FALSE)
       \/ /\ db = TRUE
          /\ op = "importSqlToDb"
          /\ json = NoDoc
          /\ jsonText = undefined
          /\ catalog = <<>>
          /\ sql \in SqlTexts
          /\ \E cb \in Callbacks : opts = Opts(cb, 0, FALSE)
       \/ /\ db = TRUE
          /\ op \in {"exportDbToSql", "exportDbToJson"}
          /\ json = NoDoc /\ jsonText = undefined /\ sql = <<>>
          /\ catalog \in Catalogs
          /\ \E cb \in ExportCallbacks, dataOnly \in BOOLEAN, structureOnly \in BOOLEAN,
                tables \in TableLists :
                opts = ExportOpts(cb, dataOnly, structureOnly, tables, FALSE)
       \/ /\ db = TRUE
          /\ op = "wipeDb"
          /\ json = NoDoc /\ jsonText = undefined /\ sql = <<>>
          /\ catalog \in Catalogs
          /\ \E cb \in Callbacks : opts = Opts(cb, 0, FALSE)
       \/ /\ db = FALSE
          /\ jsonText = undefined
          /\ catalog = <<>>
          /\ \/ op = "importJsonToDb" /\ json \in OtherDocs /\ sql = <<>>
             \/ op = "importSqlToDb" /\ json = NoDoc /\ sql \in SqlTexts
             \/ op \in {"exportDbToSql", "exportDbToJson", "wipeDb"}
                /\ json = NoDoc /\ sql = <<>>
          /\ \E cb \in Callbacks, onError \in BOOLEAN : opts = Opts(cb, 0, onError)
    /\ pc = "start"
    /\ runs = <<>>
    /\ walk = NoWalk
    /\ trace = <<>>

\* ------------------------------------------------------------------------
\* Import pipeline (importSqlToDb)
\* ------------------------------------------------------------------------
\* Whether the opts of a run hold a successFn / progressFn: importJsonToDb
\* passes its own successFn to the main run and its own successFn and
\* progressFn to the index run, every other callback is the caller's
hasSuccessFn(run) == run.kind \in {"main", "deferred"} \/ opts.successFn

hasProgressFn(run) == run.kind = "deferred" \/ opts.progressFn

\* Mutant of shift: statements.pop(), the last element is taken
shift_pop(statements) ==
    [value |-> statements[Len(statements)],
     rest |-> SubSeq(statements, 1, Len(statements) - 1)]

\* statements.shift(): the first element, and the array without it
shift(statements) == [value |-> Head(statements), rest |-> Tail(statements)]

\* handleError(e): opts.errorFn(e), or console.error(e.message) without one
handleError(id, e) ==
    IF opts.errorFn
    THEN <<Ev("errorFn", id, 0, 0, e.statement, e.message)>>
    ELSE <<Ev("console.error", id, 0, 0, <<>>, e.message)>>

\* Mutant of decorateError: error.statement is not set
decorateError_noStatement(error, statement) ==
    [message |-> <<"Failed to import SQL; message=">> \o error, statement |-> <<>>]

\* The error callback of tx.executeSql: error.message and error.statement
decorateError(error, statement) ==
    [message |-> <<"Failed to import SQL; message=">> \o error, statement |-> statement]

\* Mutant of successCount: the length of the (by then empty) array is passed
successCount_length(run) == Len(run.statements)

\* The count passed to opts.successFn at the end of a run
successCount(run) == run.totalCount

\* Mutant of indexSuccessFn: mainTotalCount is not added
indexSuccessFn_ownCount(id, run, totalCount) ==
    IF opts.successFn
    THEN <<Ev("successFn", id, totalCount, 0, <<>>, <<>>)>>
    ELSE <<>>

\* The successFn of the index run, defined in importJsonToDb: the caller's
\* successFn gets mainTotalCount + totalCount
indexSuccessFn(id, run, totalCount) ==
    IF opts.successFn
    THEN <<Ev("successFn", id, run.mainTotalCount + totalCount, 0, <<>>, <<>>)>>
    ELSE <<>>

\* The progressFn of the index run, defined in importJsonToDb
indexProgressFn(id, run, count, totalCount) ==
    IF opts.progressFn
    THEN <<Ev("progressFn", id, run.mainTotalCount + count,
              run.mainTotalCount + totalCount, <<>>, <<>>)>>
    ELSE <<>>

\* opts.successFn(totalCount) of a run: the caller's function, or the
\* function importJsonToDb passed (the main run's starts the index run)
callSuccessFn(id, run, totalCount) ==
    [events |->
        <<Ev("run.successFn", id, totalCount, 0, <<>>, <<>>)>>
        \o (CASE run.kind = "direct" -> <<Ev("successFn", id, totalCount, 0, <<>>, <<>>)>>
              [] run.kind = "main" -> <<>>
              [] run.kind = "deferred" -> indexSuccessFn(id, run, totalCount)),
     spawn |->
        IF run.kind = "main"
        THEN <<NewRun("deferred", compile(json, opts).createIndexSql, totalCount)>>
        ELSE <<>>]

\* Mutant of callProgressFn: the arguments are swapped
callProgressFn_swapped(id, run) ==
    IF ~hasProgressFn(run) THEN <<>>
    ELSE <<Ev("run.progressFn", id, run.totalCount, run.currentCount, <<>>, <<>>)>>
         \o (IF run.kind = "deferred"
             THEN indexProgressFn(id, run, run.totalCount, run.currentCount)
             ELSE <<Ev("progressFn", id, run.totalCount, run.currentCount, <<>>, <<>>)>>)

\* opts.progressFn(currentCount, totalCount) of a run
callProgressFn(id, run) ==
    IF ~hasProgressFn(run) THEN <<>>
    ELSE <<Ev("run.progressFn", id, run.currentCount, run.totalCount, <<>>, <<>>)>>
         \o (IF run.kind = "deferred"
             THEN indexProgressFn(id, run, run.currentCount, run.totalCount)
             ELSE <<Ev("progressFn", id, run.currentCount, run.totalCount, <<>>, <<>>)>>)

\* applyStatements(): submit the next statement, or report success when
\* none is left; trimWhitespace throws a TypeError on a hole of the array
applyStatements(id, run) ==
    IF Len(run.statements) > 0
    THEN LET sh == shift(run.statements)
         IN  IF sh.value = undefined
             THEN [threw |-> TRUE, events |-> <<>>, spawn |-> <<>>,
                   run |-> [run EXCEPT !.statements = sh.rest]]
             ELSE [threw |-> FALSE, spawn |-> <<>>,
                   events |-> <<Ev("executeSql", id, 0, 0, trimWhitespace(sh.value), <<>>)>>,
                   run |-> [run EXCEPT !.statements = sh.rest,
                                       !.statement = trimWhitespace(sh.value),
                                       !.inflight = TRUE]]
    ELSE IF hasSuccessFn(run)
    THEN [threw |-> FALSE,
          events |-> callSuccessFn(id, run, successCount(run)).events,
          spawn |-> callSuccessFn(id, run, successCount(run)).spawn,
          run |-> [run EXCEPT !.state = "Succeeded"]]
    ELSE [threw |-> FALSE, events |-> <<>>, spawn |-> <<>>,
          run |-> [run EXCEPT !.state = "Succeeded"]]

TypeErrorMessage == <<"TypeError: str is undefined">>

\* Mutant of initialRuns: the index run is started together with the main run
initialRuns_both(mainSql, createIndexSql) ==
    IF createIndexSql # <<>>
    THEN <<NewRun("main", mainSql, 0), NewRun("deferred", createIndexSql, 0)>>
    ELSE <<NewRun("direct", mainSql, 0)>>

\* The runs importJsonToDb starts when it returns: the main run only when
\* there is index SQL (the index run is started by the main run's
\* successFn), else one run with the caller's opts
initialRuns(mainSql, createIndexSql) ==
    IF createIndexSql # <<>>
    THEN <<NewRun("main", mainSql, 0)>>
    ELSE <<NewRun("direct", mainSql, 0)>>

InvalidDbMessage == <<"'db' argument must provide a valid SQLite database instance">>

\* isValidDB(db, opts): "valid"; or, for a db without a transaction function,
\* "reported" after opts.onError(errorMsg), "thrown" when it throws errorMsg
isValidDB ==
    IF db THEN "valid" ELSE IF opts.onError THEN "reported" ELSE "thrown"

\* What an operation does when isValidDB does not return true
RejectDb ==
    /\ isValidDB # "valid"
    /\ pc' = IF isValidDB = "reported" THEN "returned" ELSE "thrown"
    /\ trace' = trace \o
          <<Ev(IF isValidDB = "reported" THEN "onError" ELSE "throw",
               0, 0, 0, <<>>, InvalidDbMessage)>>
    /\ runs' = runs
    /\ walk' = walk
    /\ json' = json

\* Mutant of parseJson: a text is used as if it were the Document
parseJson_unparsed ==
    [threw |-> FALSE, message |-> <<>>, value |-> json]

\* The first statement of the try block of importJsonToDb: a string is
\* parsed, an object is taken as it is
parseJson ==
    IF jsonText # undefined THEN JSONparse(jsonText)
    ELSE [threw |-> FALSE, message |-> <<>>, value |-> json]

\* importJsonToDb(db, json, opts)
importJsonToDb ==
    /\ pc = "start"
    /\ op = "importJsonToDb"
    /\ \/ RejectDb
       \/ /\ isValidDB = "valid"
          /\ pc' = "returned"
          /\ json' = parseJson.value
          /\ walk' = walk
          /\ LET c == compile(parseJson.value, opts)
             IN  IF parseJson.threw \/ c.threw
                 THEN /\ runs' = runs
                      /\ trace' = trace \o handleError(0,
                            [message |-> <<"Failed to parse JSON structure to SQL: ">>
                                    \o (IF parseJson.threw THEN parseJson.message
                                        ELSE c.message),
                             statement |-> <<>>])
                 ELSE /\ runs' = initialRuns(c.mainSql, c.createIndexSql)
                      /\ trace' = trace
    /\ UNCHANGED args

\* importSqlToDb(db, sql, opts) called by the caller
importSqlToDb ==
    /\ pc = "start"
    /\ op = "importSqlToDb"
    /\ \/ RejectDb
       \/ /\ isValidDB = "valid"
          /\ pc' = "returned"
          /\ runs' = <<NewRun("direct", sql, 0)>>
          /\ trace' = trace
          /\ UNCHANGED <<json, walk>>
    /\ UNCHANGED args

\* The callback of db.transaction of run id: split the sql into statements,
\* set the counts, first applyStatements() inside the try block
Transaction(id) ==
    /\ runs[id].state = "Pending"
    /\ LET statements == tokenize(runs[id].sql)
           run0 == [runs[id] EXCEPT !.state = "Running",
                                    !.statements = statements,
                                    !.currentCount = 0,
                                    !.totalCount = Len(statements)]
           res == applyStatements(id, run0)
       IN  IF res.threw
           THEN /\ runs' = [runs EXCEPT ![id] = [res.run EXCEPT !.state = "Failed"]]
                /\ trace' = trace \o handleError(id,
                      [message |-> TypeErrorMessage, statement |-> <<>>])
           ELSE /\ runs' = [runs EXCEPT ![id] = res.run] \o res.spawn
                /\ trace' = trace \o res.events
    /\ UNCHANGED <<args, json, pc, walk>>

\* The backend reports success for the statement in flight of run id:
\* currentCount++, progressFn, applyStatements().  An exception thrown by
\* applyStatements here leaves the source through the backend's callback
\* dispatch: no callback of the run is invoked for it.
StatementSuccess(id) ==
    /\ runs[id].inflight
    /\ LET run1 == [runs[id] EXCEPT !.inflight = FALSE, !.currentCount = @ + 1]
           res == applyStatements(id, run1)
           done == <<Ev("executed", id, 0, 0, runs[id].statement, <<>>)>>
                   \o callProgressFn(id, run1)
       IN  IF res.threw
           THEN /\ runs' = [runs EXCEPT ![id] = [res.run EXCEPT !.state = "Aborted"]]
                /\ trace' = trace \o done
           ELSE /\ runs' = [runs EXCEPT ![id] = res.run] \o res.spawn
                /\ trace' = trace \o done \o res.events
    /\ UNCHANGED <<args, json, pc, walk>>

\* Mutant of StatementError: the run goes on with the next statement after
\* the error was reported
StatementError_continues(id) ==
    /\ runs[id].inflight
    /\ \E error \in BackendErrors :
          LET res == applyStatements(id, [runs[id] EXCEPT !.inflight = FALSE])
          IN  /\ runs' = [runs EXCEPT ![id] = IF res.threw
                                              THEN [res.run EXCEPT !.state = "Aborted"]
                                              ELSE res.run] \o res.spawn
              /\ trace' = trace
                    \o <<Ev("rejected", id, 0, 0, runs[id].statement, error)>>
                    \o handleError(id, decorateError(error, runs[id].statement))
                    \o res.events
    /\ UNCHANGED <<args, json, pc, walk>>

\* The backend reports an error for the statement in flight of run id
StatementError(id) ==
    /\ runs[id].inflight
    /\ \E error \in BackendErrors :
          /\ runs' = [runs EXCEPT ![id] = [@ EXCEPT !.inflight = FALSE, !.state = "Failed"]]
          /\ trace' = trace
                \o <<Ev("rejected", id, 0, 0, runs[id].statement, error)>>
                \o handleError(id, decorateError(error, runs[id].statement))
    /\ UNCHANGED <<args, json, pc, walk>>

\* ------------------------------------------------------------------------
\* The backend's answers to the queries of the export operations
\* ------------------------------------------------------------------------
\* The text a quoted SQL literal stands for: a doubled single quote is one
\* single quote
RECURSIVE unquote(_)
unquote(str) ==
    IF str = <<>> THEN <<>>
    ELSE IF Len(str) >= 2 /\ str[1] = "'" /\ str[2] = "'"
    THEN <<"'">> \o unquote(SubSeq(str, 3, Len(str)))
    ELSE <<Head(str)>> \o unquote(Tail(str))

\* The value the backend stores for the literal of an INSERT statement
storedValue(literal) ==
    IF literal = <<"NULL">> THEN null
    ELSE unquote(SubSeq(literal, 2, Len(literal) - 1))

RECURSIVE quotedFrom(_, _)
\* The contents of the quoted literals of a query from position i on
quotedFrom(query, i) ==
    LET a == First(query, i, {"'"})
        b == First(query, a + 1, {"'"})
    IN  IF b > Len(query) THEN {}
        ELSE {SubSeq(query, a + 1, b - 1)} \cup quotedFrom(query, b + 1)

\* The rows of sqlite_master a catalog query selects: all of them, or with
\* a condition  tbl_name IN (...)  those of the tables it names
masterRows(query) ==
    SelectSeq(catalog, LAMBDA r :
        indexOf(query, <<"IN">>) = 0
        \/ r.tbl_name \in quotedFrom(query, indexOf(query, <<"IN">>)))

\* The rows the backend returns for the query in flight
queryResult(step, query) ==
    CASE step \in {"sql", "wipe"} ->
            [i \in DOMAIN masterRows(query) |-> masterRows(query)[i].sql]
      [] step = "tbl_name" ->
            LET tables == SelectSeq(masterRows(query), LAMBDA r : r.type = "table")
            IN  [i \in DOMAIN tables |-> tables[i].tbl_name]
      [] step = "rows" ->
            LET named == SelectSeq(catalog, LAMBDA r :
                            /\ r.type = "table"
                            /\ r.tbl_name = sqlUnescape(SubSeq(query, 7, Len(query))))
            IN  IF named = <<>> THEN <<>> ELSE named[1].rows

\* ------------------------------------------------------------------------
\* exportDbToSql, exportDbToJson, wipeDb
\* ------------------------------------------------------------------------
\* Mutant of exportTables: structureOnly is not looked at
exportTables_rowsAlways(w) ==
    IF w.n < Len(w.sqlTables)
    THEN [walk |-> [w EXCEPT !.state = "Pending", !.step = "rows"], events |-> <<>>]
    ELSE [walk |-> [w EXCEPT !.state = "Done"],
          events |-> IF opts.successFn
                     THEN <<Ev("opts.successFn", 0, w.statementCount, 0, <<>>, <<>>)>>
                     ELSE <<>>]

\* exportTables(tables): a transaction for the rows of the next table, or
\* opts.successFn(exportSQL | json, statementCount)
exportTables(w) ==
    IF w.n < Len(w.sqlTables) /\ ~opts.structureOnly
    THEN [walk |-> [w EXCEPT !.state = "Pending", !.step = "rows"], events |-> <<>>]
    ELSE [walk |-> [w EXCEPT !.state = "Done"],
          events |-> IF opts.successFn
                     THEN <<Ev("opts.successFn", 0, w.statementCount, 0, <<>>, <<>>)>>
                     ELSE <<>>]

\* exportDbToSql(db, opts), exportDbToJson(db, opts), wipeDb(db, opts): after
\* isValidDB, db.transaction is called for the first catalog query
StartWalk(operation, step) ==
    /\ pc = "start"
    /\ op = operation
    /\ \/ RejectDb
       \/ /\ isValidDB = "valid"
          /\ pc' = "returned"
          /\ walk' = [NoWalk EXCEPT !.state = "Pending", !.step = step]
          /\ UNCHANGED <<json, runs, trace>>
    /\ UNCHANGED args

exportDbToSql == StartWalk("exportDbToSql", "sql")

exportDbToJson == StartWalk("exportDbToJson", "sql")

wipeDb == StartWalk("wipeDb", "wipe")

\* The callback of db.transaction of the export operations and of wipeDb:
\* the query is built and submitted
WalkTransaction ==
    /\ walk.state = "Pending"
    /\ LET query ==
              CASE walk.step = "sql" -> MasterSqlQuery(createFilters(opts.tables))
                [] walk.step = "wipe" -> WipeQuery
                [] walk.step = "rows" ->
                      RowsQuery(sqlUnescape(walk.sqlTables[walk.n + 1]))
       IN  /\ walk' = [walk EXCEPT !.state = "Querying", !.query = query]
           /\ trace' = trace \o <<Ev("query", 0, 0, 0, query, <<>>)>>
    /\ UNCHANGED <<args, json, pc, runs>>

\* exportDbToSql: the callback of the first catalog query
structureCallbackSql(w, rows) ==
    [w EXCEPT !.exportSQL = @ \o structureSql(sqlStatements(rows, opts.dataOnly)),
              !.statementCount = @ + Len(sqlStatements(rows, opts.dataOnly))]

\* exportDbToJson: the callback of the first catalog query
structureCallbackJson(w, rows) ==
    IF opts.dataOnly THEN w
    ELSE [w EXCEPT
            !.json = Doc({"structure", "tables"}
                         \cup (IF structureOtherSQL(rows) # <<>> THEN {"otherSQL"} ELSE {}),
                         structureTables(rows), structureOtherSQL(rows), <<>>, <<>>, <<>>),
            !.statementCount = @ + 2 * Len(structureTables(rows))
                                 + Len(structureOtherSQL(rows))]

\* The callback of a row query: the rows are added to the output
rowsCallback(w, rows) ==
    LET tableName == sqlUnescape(w.sqlTables[w.n + 1])
    IN  IF op = "exportDbToSql"
        THEN [w EXCEPT
                !.exportSQL = @ \o Concat([m \in DOMAIN rows |->
                                             rowInsertSql(tableName, rows[m])]),
                !.statementCount = @ + Len(rows),
                !.n = @ + 1]
        ELSE IF ~isReservedTable(tableName)
        THEN [w EXCEPT
                !.json.inserts = @ \o <<[table |-> tableName,
                                         rows |-> [m \in DOMAIN rows |-> rowToJson(rows[m])]]>>,
                !.statementCount = @ + Len(rows),
                !.n = @ + 1]
        ELSE [w EXCEPT !.n = @ + 1]

\* The backend returns the rows of the query in flight: the success callback
\* of that executeSql call runs
QuerySuccess ==
    /\ walk.state = "Querying"
    /\ LET rows == queryResult(walk.step, walk.query)
           got == <<Ev("query.success", 0, Len(rows), 0, walk.query, <<>>)>>
       IN  CASE walk.step = "sql" ->
                  LET w1 == IF op = "exportDbToSql" THEN structureCallbackSql(walk, rows)
                            ELSE structureCallbackJson(walk, rows)
                      query == TblNameQuery(createFilters(opts.tables))
                  IN  /\ walk' = [w1 EXCEPT !.step = "tbl_name", !.query = query]
                      /\ trace' = trace \o got \o <<Ev("query", 0, 0, 0, query, <<>>)>>
                      /\ runs' = runs
             [] walk.step = "tbl_name" ->
                  LET w1 == [walk EXCEPT
                                !.sqlTables = sqlTablesOf(rows, op),
                                !.n = 0,
                                !.json.keys = IF op = "exportDbToJson"
                                              THEN @ \cup {"data", "inserts"} ELSE @]
                  IN  /\ walk' = exportTables(w1).walk
                      /\ trace' = trace \o got \o exportTables(w1).events
                      /\ runs' = runs
             [] walk.step = "rows" ->
                  /\ walk' = exportTables(rowsCallback(walk, rows)).walk
                  /\ trace' = trace \o got \o exportTables(rowsCallback(walk, rows)).events
                  /\ runs' = runs
             [] walk.step = "wipe" ->
                  /\ walk' = [walk EXCEPT !.state = "Done",
                                          !.statementCount = Len(dropStatements(rows))]
                  /\ IF Len(dropStatements(rows)) > 0
                     THEN /\ runs' = <<NewRun("direct",
                                              join(dropStatements(rows), separator), 0)>>
                          /\ trace' = trace \o got
                     ELSE /\ runs' = runs
                          /\ trace' = trace \o got
                                \o (IF opts.successFn
                                    THEN <<Ev("opts.successFn", 0, 0, 0, <<>>, <<>>)>>
                                    ELSE <<>>)
    /\ UNCHANGED <<args, json, pc>>

\* The backend reports an error for the query in flight: the executeSql
\* calls of the export operations and of wipeDb pass no error callback and
\* neither do their db.transaction calls
QueryError ==
    /\ walk.state = "Querying"
    /\ \E error \in BackendErrors :
          /\ walk' = [walk EXCEPT !.state = "Failed"]
          /\ trace' = trace \o <<Ev("query.error", 0, 0, 0, walk.query, error)>>
    /\ UNCHANGED <<args, json, pc, runs>>

Next ==
    \/ importJsonToDb
    \/ importSqlToDb
    \/ exportDbToSql
    \/ exportDbToJson
    \/ wipeDb
    \/ WalkTransaction
    \/ QuerySuccess
    \/ QueryError
    \/ \E id \in DOMAIN runs : Transaction(id)
    \/ \E id \in DOMAIN runs : StatementSuccess(id)
    \/ \E id \in DOMAIN runs : StatementError(id)

Spec == Init /\ [][Next]_vars

\* The runs a call can start: the direct or main run and the deferred run
RunIds == 1..2

\* The backend eventually answers the statement in flight of every run,
\* with success or with an error
FairSpec ==
    /\ Spec
    /\ \A id \in RunIds :
          WF_vars(id \in DOMAIN runs /\ (StatementSuccess(id) \/ StatementError(id)))

\* ------------------------------------------------------------------------
\* History accessors used by the properties
\* ------------------------------------------------------------------------
\* Positions of the trace, up to position n, that hold an event of run id
\* whose kind is in kinds
Positions(id, kinds, n) ==
    {k \in 1..n : trace[k].run = id /\ trace[k].ev \in kinds}

\* The events of run id whose kind is in kinds, in order
EventsOf(id, kinds) ==
    SelectSeq(trace, LAMBDA e : e.run = id /\ e.ev \in kinds)

\* The statement sequence a run works on, as its transaction callback builds it
StatementsOf(id) == tokenize(runs[id].sql)

\* The otherSQL commands of the inputs that create an index
IndexCommands == {CreateIndexCmd, CreateIndexLowerCmd, CreateUniqueIndexCmd}

\* The text an INSERT statement for a table starts with
InsertInto(tableName) ==
    <<"INSERT", " ", "OR", " ", "REPLACE", " ", "INTO", " ">> \o sqlEscape(tableName) \o <<"(">>

IsInsertInto(statement, tableName) ==
    /\ Len(statement) >= Len(InsertInto(tableName))
    /\ SubSeq(statement, 1, Len(InsertInto(tableName))) = InsertInto(tableName)

\* The import is over and the backend has rejected no statement
ImportOver ==
    /\ op = "importJsonToDb"
    /\ runs # <<>>
    /\ \A id \in DOMAIN runs : runs[id].state \in {"Succeeded", "Failed", "Aborted"}
    /\ \A k \in DOMAIN trace : trace[k].ev # "rejected"

CeilDiv(n, b) == (n + b - 1) \div b

\* The INSERT statement for rows a..b of a table: the first row as
\* SELECT ... AS, the others as UNION SELECT
BatchStatement(tableName, rows, a, b) ==
    InsertSelect(tableName, rows[a])
    \o Concat([i \in 1..(b - a) |-> UnionSelect(rows[a + i])])

\* Nothing is pending: the call is over, no transaction is waiting to be
\* opened, no query and no statement is in flight
Quiescent ==
    /\ pc # "start"
    /\ walk.state \in {"None", "Done", "Failed"}
    /\ \A id \in DOMAIN runs :
          runs[id].state \in {"Succeeded", "Failed", "Aborted"} /\ ~runs[id].inflight

\* The ways a table name is written in a statement: plain or between
\* back-ticks
Written(name) == {name, <<backtick>> \o name \o <<backtick>>}

\* Whether a text starts with a pattern
StartsWith(str, pat) == Len(str) >= Len(pat) /\ SubSeq(str, 1, Len(pat)) = pat

\* A reserved table name: one of SQLite's own tables (sqlite_...), or a
\* name with a double underscore
ReservedName(name) ==
    \/ Len(name) >= 2 /\ name[1] = "sqlite" /\ name[2] = "_"
    \/ \E i \in 1..(Len(name) - 1) : name[i] = "_" /\ name[i + 1] = "_"

\* Whether an SQL text holds a DROP TABLE, CREATE TABLE or INSERT statement
\* for the table, its name written plain or between back-ticks
NamesTable(str, name) ==
    \E target \in {name, <<backtick>> \o name \o <<backtick>>} :
        \/ indexOf(str, <<"DROP", " ", "TABLE", " ", "IF", " ", "EXISTS", " ">> \o target) # 0
        \/ indexOf(str, <<"CREATE", " ", "TABLE", " ">> \o target) # 0
        \/ indexOf(str, <<"INSERT", " ", "OR", " ", "REPLACE", " ", "INTO", " ">> \o target) # 0

\* The SQL literal of a stored value: NULL, or the text between single
\* quotes with every single quote doubled
Literal(v) ==
    IF v = null THEN <<"NULL">>
    ELSE <<"'">> \o Concat([i \in DOMAIN v |->
                               IF v[i] = "'" THEN <<"'", "'">> ELSE <<v[i]>>]) \o <<"'">>

\* The number of places of a text where a pattern starts
CountOf(str, pat) ==
    Cardinality({i \in 1..(Len(str) - Len(pat) + 1) : SubSeq(str, i, i + Len(pat) - 1) = pat})

\* The number of structure statements the output of an export stands for:
\* the DROP and CREATE statements of the SQL text, or two for every
\* structure.tables entry and one for every otherSQL entry
StructureCount ==
    IF op = "exportDbToSql"
    THEN CountOf(walk.exportSQL, <<"DROP", " ", "TABLE", " ", "IF", " ", "EXISTS", " ">>)
         + CountOf(walk.exportSQL, <<"CREATE", " ">>)
    ELSE 2 * Len(walk.json.tables) + Len(walk.json.otherSQL)

\* The number of rows in the output of an export
RowCount ==
    IF op = "exportDbToSql"
    THEN CountOf(walk.exportSQL, <<"INSERT", " ", "OR", " ", "REPLACE", " ", "INTO", " ">>)
    ELSE Len(Concat([i \in DOMAIN walk.json.inserts |-> walk.json.inserts[i].rows]))

\* A query for the rows of a table, submitted to the backend
IsRowsQuery(e) ==
    /\ e.ev = "query"
    /\ Len(e.statement) >= 5
    /\ SubSeq(e.statement, 1, 5) = <<"SELECT", " ", "*", " ", "FROM">>

\* The SQL literal of a scalar of a Document: NULL for null and for an
\* absent value, else the text between single quotes
SqlLiteral(v) == IF v = undefined THEN <<"NULL">> ELSE Literal(v)

\* The update entries and the delete entries of the Document with their
\* tables, in the order of the Document
UpdateEntries ==
    Concat([t \in DOMAIN json.updates |->
              [i \in DOMAIN json.updates[t].entries |->
                  [table |-> json.updates[t].table,
                   set |-> json.updates[t].entries[i].set,
                   where |-> json.updates[t].entries[i].where]]])

DeleteEntries ==
    Concat([t \in DOMAIN json.deletes |->
              [i \in DOMAIN json.deletes[t].entries |->
                  [table |-> json.deletes[t].table,
                   set |-> <<>>,
                   where |-> json.deletes[t].entries[i]]]])

\* Every value of the entries is a string
AllStrings(entries) ==
    \A i \in DOMAIN entries :
        \A f \in {entries[i].set[c] : c \in DOMAIN entries[i].set}
                 \cup {entries[i].where[c] : c \in DOMAIN entries[i].where} :
            f.val \notin {null, undefined, true, false}

\* The terms col='val' of an object, joined
TermsJoined(object, sep) ==
    join([c \in DOMAIN object |-> object[c].col \o <<"=">> \o Literal(object[c].val)], sep)

\* The where clause of an entry: its terms joined by AND after the keyword
\* (an object without fields has no term to join and gives no clause)
WhereClause(object) ==
    IF object = <<>> THEN <<>>
    ELSE <<" ", "WHERE", " ">> \o TermsJoined(object, <<" ", "AND", " ">>)

\* The UPDATE statement of an entry, its set terms joined by setSep, and
\* the DELETE statement of an entry, the table name written either way
UpdateTexts(entry, setSep) ==
    {<<"UPDATE", " ">> \o target \o <<" ", "SET", " ">> \o TermsJoined(entry.set, setSep)
        \o WhereClause(entry.where) :
        target \in Written(entry.table)}

DeleteTexts(entry) ==
    {<<"DELETE", " ", "FROM", " ">> \o target
        \o WhereClause(entry.where) :
        target \in Written(entry.table)}

\* The submitted statements that start with a keyword, in order
StatementsWith(prefix) ==
    LET events == SelectSeq(trace, LAMBDA e :
                      e.ev = "executeSql" /\ StartsWith(e.statement, prefix))
    IN  [i \in DOMAIN events |-> events[i].statement]

\* The column clause of a stored CREATE TABLE text: the text from the
\* first parenthesis on, a tab written as a blank
ColumnClauseOf(rowSql) ==
    [i \in 1..(Len(rowSql) - First(rowSql, 1, {"("}) + 1) |->
        IF rowSql[First(rowSql, 1, {"("}) + i - 1] = "\t" THEN " "
        ELSE rowSql[First(rowSql, 1, {"("}) + i - 1]]

\* An identifier that must be written between back-ticks
NeedsDelimiting(ident) == \E i \in DOMAIN ident : ident[i] \in {"_", "-"}

\* Whether an identifier stands in a text without a back-tick before it
\* (and not as the quoted alias of a SELECT column)
StandsPlain(str, ident) ==
    \E p \in 1..(Len(str) - Len(ident) + 1) :
        /\ SubSeq(str, p, p + Len(ident) - 1) = ident
        /\ p = 1 \/ str[p - 1] \notin {backtick, "'"}

\* The text of an export from its first INSERT statement on
InsertPart(str) ==
    LET p == indexOf(str, <<"INSERT", " ", "OR", " ", "REPLACE", " ", "INTO", " ">>)
    IN  IF p = 0 THEN <<>> ELSE SubSeq(str, p, Len(str))

\* The column names of a sequence of row objects
ColumnsOf(rows) == UNION {{rows[m][c].col : c \in DOMAIN rows[m]} : m \in DOMAIN rows}

\* The table and column names of the catalog and of the Document
CatalogIdentifiers ==
    {catalog[j].tbl_name : j \in DOMAIN catalog}
    \cup UNION {ColumnsOf(catalog[j].rows) : j \in DOMAIN catalog}

DocumentIdentifiers ==
    {json.tables[t].name : t \in DOMAIN json.tables}
    \cup {json.inserts[t].table : t \in DOMAIN json.inserts}
    \cup {json.updates[t].table : t \in DOMAIN json.updates}
    \cup {json.deletes[t].table : t \in DOMAIN json.deletes}
    \cup UNION {ColumnsOf(json.inserts[t].rows) : t \in DOMAIN json.inserts}
    \cup UNION {ColumnsOf(json.deletes[t].entries) : t \in DOMAIN json.deletes}
    \cup UNION {ColumnsOf([i \in DOMAIN json.updates[t].entries |->
                              json.updates[t].entries[i].set
                              \o json.updates[t].entries[i].where]) :
                    t \in DOMAIN json.updates}

\* The typed value a stored value stands for
TypedOf(v) ==
    CASE v = <<"true">> -> true
      [] v = <<"false">> -> false
      [] v = <<"null">> -> null
      [] OTHER -> v

\* The value exportDbToJson yields for a field after importJsonToDb has
\* inserted the exported value v
ExportedAgain(v) == dataRowToJsonData(storedValue(selectValue(v)))

\* opts.tables names at least one table
Filtered == opts.tables.supplied /\ opts.tables.names # <<>>

FilterNames == {opts.tables.names[i] : i \in DOMAIN opts.tables.names}

\* The position of the section a statement of the main sequence belongs to:
\* 1 table structure, 2 other SQL, 3 inserts, 4 updates, 5 deletes
SectionOf(statement) ==
    CASE StartsWith(statement, <<"DROP", " ", "TABLE">>) -> 1
      [] StartsWith(statement, <<"CREATE", " ", "TABLE">>) -> 1
      [] StartsWith(statement, <<"INSERT">>) -> 3
      [] StartsWith(statement, <<"UPDATE">>) -> 4
      [] StartsWith(statement, <<"DELETE">>) -> 5
      [] OTHER -> 2

\* The tables whose rows an export is to read: the tables of the catalog
\* that are not reserved and that opts.tables names, if it names any
QualifyingTables ==
    SelectSeq(catalog, LAMBDA r :
        /\ r.type = "table"
        /\ ~ReservedName(r.tbl_name)
        /\ Filtered => r.tbl_name \in FilterNames)

\* The tables of the catalog that are not reserved
OrdinaryTables ==
    SelectSeq(catalog, LAMBDA r : r.type = "table" /\ ~ReservedName(r.tbl_name))

\* The last position at which a pattern starts in a text, 0 when it does
\* not occur
LastOf(str, pat) ==
    LET hits == {i \in 1..(Len(str) - Len(pat) + 1) : SubSeq(str, i, i + Len(pat) - 1) = pat}
    IN  IF hits = {} THEN 0 ELSE CHOOSE i \in hits : \A j \in hits : j <= i

\* The table a row query reads, without the back-ticks around its name
RowsQueryTable(e) ==
    SelectSeq(SubSeq(e.statement, 7, Len(e.statement)), LAMBDA a : a # backtick)

\* The output of the export holds the DROP and CREATE statements, or the
\* structure.tables entry, of a table of the catalog
StructureExported(row) ==
    IF op = "exportDbToSql"
    THEN /\ indexOf(walk.exportSQL, DropTable(row.tbl_name) \o separator) # 0
         /\ indexOf(walk.exportSQL, normaliseWhitespace(row.sql) \o separator) # 0
    ELSE \E i \in DOMAIN walk.json.tables : walk.json.tables[i].name = row.tbl_name

\* The output of the export holds every row of a table of the catalog
RowsExported(row) ==
    IF op = "exportDbToSql"
    THEN \A m \in DOMAIN row.rows :
             \E target \in {row.tbl_name, <<backtick>> \o row.tbl_name \o <<backtick>>} :
                 indexOf(walk.exportSQL,
                         <<"INSERT", " ", "OR", " ", "REPLACE", " ", "INTO", " ">> \o target
                         \o <<"(">> \o join([c \in DOMAIN row.rows[m] |->
                                                sqlEscape(row.rows[m][c].col)], <<",">>)
                         \o <<")", " ", "VALUES", " ", "(">>
                         \o join([c \in DOMAIN row.rows[m] |->
                                     Literal(row.rows[m][c].val)], <<",">>)
                         \o <<")">>) # 0
    ELSE \E i \in DOMAIN walk.json.inserts :
             /\ walk.json.inserts[i].table = row.tbl_name
             /\ Len(walk.json.inserts[i].rows) = Len(row.rows)

\* A lexer for SQL text, one character at a time.  Its states: n normal,
\* nd and ns normal after a - and after a /, s and d in a single- and in a
\* double-quoted literal, sq and dq in such a literal after a quote (the
\* literal has ended unless the same quote follows: a doubled quote stands
\* for the quote), l in a line comment (-- to the end of the line), b in a
\* block comment (/* to */) and bs in a block comment after a *.
lexStep(state, a) ==
    CASE state = "s" -> IF a = "'" THEN "sq" ELSE "s"
      [] state = "d" -> IF a = "\"" THEN "dq" ELSE "d"
      [] state = "l" -> IF a \in {"\n", "\r"} THEN "n" ELSE "l"
      [] state = "b" -> IF a = "*" THEN "bs" ELSE "b"
      [] state = "bs" -> IF a = "/" THEN "n" ELSE IF a = "*" THEN "bs" ELSE "b"
      [] state = "nd" /\ a = "-" -> "l"
      [] state = "ns" /\ a = "*" -> "b"
      [] state = "sq" /\ a = "'" -> "s"
      [] state = "dq" /\ a = "\"" -> "d"
      [] OTHER -> CASE a = "'" -> "s"
                    [] a = "\"" -> "d"
                    [] a = "-" -> "nd"
                    [] a = "/" -> "ns"
                    [] OTHER -> "n"

\* The states of the lexer after each character of str[lo..hi], entered in
\* the state entry
RECURSIVE lexStates(_, _, _, _)
lexStates(str, lo, hi, entry) ==
    IF lo > hi THEN <<>>
    ELSE IF lo = hi THEN <<lexStep(entry, str[lo])>>
    ELSE LET mid == (lo + hi) \div 2
             left == lexStates(str, lo, mid, entry)
         IN  left \o lexStates(str, mid + 1, hi, left[Len(left)])

\* The text cut at the semicolons read outside literals and comments, the
\* comments left out (the line break that ends a line comment is kept);
\* closed tells that no literal and no block comment is open at the end
lex(str) ==
    LET n == Len(str)
        st == lexStates(str, 1, n, "n")
        before(i) == IF i = 1 THEN "n" ELSE st[i - 1]
        outside(state) == state \in {"n", "nd", "ns", "sq", "dq"}
        cut(i) == str[i] = ";" /\ outside(before(i))
        kept(i) ==
            /\ st[i] \notin {"l", "b", "bs"}
            /\ ~(st[i] = "nd" /\ i < n /\ st[i + 1] = "l")
            /\ ~(st[i] = "ns" /\ i < n /\ st[i + 1] = "b")
            /\ ~(st[i] = "n" /\ before(i) = "bs")
            /\ ~cut(i)
        cuts == {i \in 1..n : cut(i)}
        bound(k) == IF k = 0 THEN 0
                    ELSE IF k > Cardinality(cuts) THEN n + 1
                    ELSE CHOOSE c \in cuts : Cardinality({x \in cuts : x <= c}) = k
        marked(k) == SelectSeq([j \in 1..(bound(k) - bound(k - 1) - 1) |->
                                   [a |-> str[bound(k - 1) + j], keep |-> kept(bound(k - 1) + j)]],
                               LAMBDA r : r.keep)
    IN  [pieces |-> [k \in 1..(Cardinality(cuts) + 1) |->
                        [j \in DOMAIN marked(k) |-> marked(k)[j].a]],
         closed |-> n = 0 \/ outside(st[n]) \/ st[n] = "l"]

\* The statements of a text by the lexer: its non-blank pieces, trimmed
lexStatements(str) ==
    SelectSeq([i \in DOMAIN lex(str).pieces |-> trimWhitespace(lex(str).pieces[i])],
              LAMBDA piece : piece # <<>>)

\* The numbers of statements statementRegEx finds in mainSql and in
\* createIndexSql
MainCount == Len(statementRegEx(removeComments(compile(json, opts).mainSql)))

IndexCount == Len(statementRegEx(removeComments(compile(json, opts).createIndexSql)))

\* ------------------------------------------------------------------------
\* C1: in every pipeline run the statements are submitted in sequence order,
\* statement i+1 only after the backend reported success for statement i,
\* and at most one statement of the run is in flight at any moment.
\* ------------------------------------------------------------------------
C1_OneAtATimeInOrder ==
    \A id \in DOMAIN runs :
        LET submitted == EventsOf(id, {"executeSql"})
            backend == EventsOf(id, {"executeSql", "executed", "rejected"})
        IN  /\ Len(submitted) <= Len(StatementsOf(id))
            /\ \A i \in DOMAIN submitted :
                  submitted[i].statement = trimWhitespace(StatementsOf(id)[i])
            /\ \A k \in DOMAIN backend :
                  IF backend[k].ev = "executeSql"
                  THEN k = 1 \/ backend[k - 1].ev = "executed"
                  ELSE k > 1 /\ backend[k - 1].ev = "executeSql"
                             /\ backend[k - 1].statement = backend[k].statement
            /\ Len(submitted) - Len(EventsOf(id, {"executed", "rejected"})) \in {0, 1}
            /\ runs[id].inflight <=>
                  Len(submitted) - Len(EventsOf(id, {"executed", "rejected"})) = 1

\* A run has submitted its third statement after two successes
C1_Witness ==
    \E id \in DOMAIN runs :
        /\ Len(EventsOf(id, {"executeSql"})) >= 3
        /\ Len(EventsOf(id, {"executed"})) >= 2

\* ------------------------------------------------------------------------
\* C2: when the backend reports an error for statement i of a run, no later
\* statement of the run is submitted, the run's successFn is never invoked,
\* and the errorFn receives an error that carries the text of statement i
\* and the backend's error message.
\* ------------------------------------------------------------------------
C2_ErrorStopsRun ==
    \A k \in DOMAIN trace :
        trace[k].ev = "rejected" =>
            LET id == trace[k].run
                i == Cardinality(Positions(id, {"executeSql"}, k))
            IN  /\ \A j \in (k + 1)..Len(trace) :
                      trace[j].run = id =>
                          trace[j].ev \notin {"executeSql", "executed", "run.successFn",
                                              "successFn", "run.progressFn", "progressFn"}
                /\ \A j \in DOMAIN trace :
                      /\ trace[j].ev # "successFn"
                      /\ ~(trace[j].ev = "run.successFn" /\ trace[j].run = id)
                /\ runs[id].state = "Failed" /\ ~runs[id].inflight
                /\ opts.errorFn =>
                      /\ k + 1 <= Len(trace)
                      /\ trace[k + 1].ev = "errorFn"
                      /\ trace[k + 1].run = id
                      /\ trace[k + 1].statement = trimWhitespace(StatementsOf(id)[i])
                      /\ \E error \in BackendErrors :
                            /\ trace[k].message = error
                            /\ trace[k + 1].message =
                                   <<"Failed to import SQL; message=">> \o error
                      /\ Cardinality(Positions(id, {"errorFn"}, Len(trace))) = 1

\* The backend rejected the second statement of a run that has statements
\* left, and the errorFn was called
C2_Witness ==
    \E k \in DOMAIN trace :
        /\ trace[k].ev = "rejected"
        /\ Cardinality(Positions(trace[k].run, {"executeSql"}, k)) = 2
        /\ Len(StatementsOf(trace[k].run)) >= 3
        /\ k + 1 <= Len(trace)
        /\ trace[k + 1].ev = "errorFn"

\* ------------------------------------------------------------------------
\* C3: in a two-phase importJsonToDb run no statement of the index
\* (deferred) batch is submitted before every statement of the main
\* sequence has succeeded; when a main statement fails, none ever is.
\* ------------------------------------------------------------------------
C3_DeferredAfterMain ==
    \A k \in DOMAIN trace :
        (trace[k].ev = "executeSql" /\ runs[trace[k].run].kind = "deferred") =>
            /\ runs[1].kind = "main"
            /\ runs[trace[k].run].sql = compile(json, opts).createIndexSql
            /\ Cardinality(Positions(1, {"executed"}, k)) = Len(StatementsOf(1))
            /\ Positions(1, {"rejected"}, Len(trace)) = {}
            /\ runs[1].state = "Succeeded"

\* An index statement was submitted after a main sequence of three or more
C3_Witness ==
    \E k \in DOMAIN trace :
        /\ trace[k].ev = "executeSql"
        /\ runs[trace[k].run].kind = "deferred"
        /\ Len(StatementsOf(1)) >= 3

\* ------------------------------------------------------------------------
\* C4: every key of the Document is optional: importJsonToDb given a
\* Document that omits any subset of structure, structure.tables,
\* structure.otherSQL, data, data.inserts, data.updates, data.deletes
\* reports no error and starts the import of the sections that are present.
\* ------------------------------------------------------------------------
C4_EveryKeyOptional ==
    (db /\ op = "importJsonToDb" /\ pc = "returned") =>
        /\ \A k \in DOMAIN trace :
              trace[k].run = 0 => trace[k].ev \notin {"errorFn", "console.error"}
        /\ runs # <<>>
        /\ runs[1].sql =
              (IF "tables" \in json.keys THEN TablesSql(json.tables) ELSE <<>>)
              \o (IF "otherSQL" \in json.keys THEN OtherMainSql(json.otherSQL) ELSE <<>>)
              \o (IF "inserts" \in json.keys
                  THEN InsertsSql(json.inserts, batchInsertSize(opts)) ELSE <<>>)
              \o (IF "deletes" \in json.keys THEN DeletesSql(json.deletes) ELSE <<>>)
              \o (IF "updates" \in json.keys THEN UpdatesSql(json.updates) ELSE <<>>)

\* ------------------------------------------------------------------------
\* C5: an index-creation statement of otherSQL, the CREATE UNIQUE INDEX form
\* of the README's examples included, is executed after all other SQL
\* commands of the import (after every INSERT) and in a separate
\* transaction (the index run).
\* ------------------------------------------------------------------------
C5_IndexCreationDelayed ==
    \A k \in DOMAIN trace :
        (trace[k].ev = "executeSql" /\ trace[k].statement \in IndexCommands) =>
            /\ runs[trace[k].run].kind = "deferred"
            /\ \A j \in (k + 1)..Len(trace) :
                  trace[j].ev = "executeSql" => trace[j].statement \in IndexCommands

\* ------------------------------------------------------------------------
\* C6: for every table with N >= 0 insert rows and every batchInsertSize
\* B >= 1, importJsonToDb executes exactly ceil(N/B) INSERT statements for
\* that table (when the backend rejects nothing).
\* ------------------------------------------------------------------------
C6_BatchCount ==
    ImportOver =>
        \A t \in DOMAIN json.inserts :
            Cardinality({k \in DOMAIN trace :
                            /\ trace[k].ev = "executed"
                            /\ IsInsertInto(trace[k].statement, json.inserts[t].table)})
                = CeilDiv(Len(json.inserts[t].rows), batchInsertSize(opts))

\* ------------------------------------------------------------------------
\* C7: every INSERT statement importJsonToDb submits carries rows of exactly
\* one table, at least 1 and at most batchInsertSize rows, contiguous and in
\* input order (the first as SELECT ... AS, the others as UNION SELECT), so
\* with batchInsertSize = 1 every row has its own INSERT statement without
\* any UNION SELECT.
\* ------------------------------------------------------------------------
C7_BatchesAreRowRuns ==
    \A k \in DOMAIN trace :
        (/\ op = "importJsonToDb"
         /\ trace[k].ev = "executeSql"
         /\ \E t \in DOMAIN json.inserts :
               IsInsertInto(trace[k].statement, json.inserts[t].table)) =>
            \E t \in DOMAIN json.inserts :
                \E a \in DOMAIN json.inserts[t].rows :
                    \E b \in a..Len(json.inserts[t].rows) :
                        /\ b - a + 1 <= batchInsertSize(opts)
                        /\ trace[k].statement =
                               BatchStatement(json.inserts[t].table, json.inserts[t].rows, a, b)

\* ------------------------------------------------------------------------
\* C8: the successFn of a run is invoked only after every statement of the
\* run's sequence has been executed successfully, and the count it receives
\* is the number of statements the backend executed in that run.
\* ------------------------------------------------------------------------
C8_SuccessAfterAll ==
    \A k \in DOMAIN trace :
        trace[k].ev = "run.successFn" =>
            LET id == trace[k].run
                executed == Cardinality(Positions(id, {"executed"}, k))
            IN  /\ executed = Len(statementRegEx(removeComments(runs[id].sql)))
                /\ Cardinality(Positions(id, {"executeSql"}, Len(trace))) = executed
                /\ Positions(id, {"rejected"}, Len(trace)) = {}
                /\ trace[k].count = executed
                /\ runs[id].kind = "direct" =>
                      /\ k + 1 <= Len(trace)
                      /\ trace[k + 1].ev = "successFn"
                      /\ trace[k + 1].count = executed

\* A run of three or more statements has reported success
C8_Witness ==
    \E k \in DOMAIN trace :
        /\ trace[k].ev = "run.successFn"
        /\ trace[k].count >= 3

\* ------------------------------------------------------------------------
\* C9: in a run over n statements the k-th successful statement causes
\* exactly one progress notification, with arguments (k, n), delivered
\* before statement k+1 is submitted; a failing statement causes none, and
\* the current count never exceeds the total.
\* ------------------------------------------------------------------------
C9_ProgressPerSuccess ==
    \A id \in DOMAIN runs :
        hasProgressFn(runs[id]) =>
            /\ Len(EventsOf(id, {"run.progressFn"})) = Len(EventsOf(id, {"executed"}))
            /\ \A p \in DOMAIN trace :
                  (trace[p].ev = "executed" /\ trace[p].run = id) =>
                      /\ p + 1 <= Len(trace)
                      /\ trace[p + 1].ev = "run.progressFn"
                      /\ trace[p + 1].run = id
                      /\ trace[p + 1].count = Cardinality(Positions(id, {"executed"}, p))
                      /\ trace[p + 1].total = Len(statementRegEx(removeComments(runs[id].sql)))
                      /\ trace[p + 1].count <= trace[p + 1].total
            /\ \A p \in DOMAIN trace :
                  (trace[p].ev = "rejected" /\ trace[p].run = id) =>
                      \A j \in (p + 1)..Len(trace) :
                          trace[j].run = id => trace[j].ev # "run.progressFn"

\* A run has notified the progress (2, n) and has gone on to statement 3
C9_Witness ==
    \E id \in DOMAIN runs :
        /\ hasProgressFn(runs[id])
        /\ Len(EventsOf(id, {"run.progressFn"})) >= 2
        /\ Len(EventsOf(id, {"executeSql"})) >= 3

\* ------------------------------------------------------------------------
\* C10: in a two-phase importJsonToDb run with m main and d index
\* statements the caller's successFn is invoked exactly once, only after the
\* last index statement succeeded (never at the end of the main phase), with
\* count m + d; the k-th success of the index phase reaches the caller's
\* progressFn as (m + k, m + d).
\* ------------------------------------------------------------------------
C10_TwoPhaseCounts ==
    (runs # <<>> /\ runs[1].kind = "main") =>
        /\ \A k \in DOMAIN trace :
              trace[k].ev = "successFn" =>
                  /\ opts.successFn
                  /\ Len(runs) = 2 /\ trace[k].run = 2
                  /\ Cardinality(Positions(2, {"executed"}, k)) = IndexCount
                  /\ Cardinality(Positions(1, {"executed"}, k)) = MainCount
                  /\ trace[k].count = MainCount + IndexCount
        /\ Cardinality({k \in DOMAIN trace : trace[k].ev = "successFn"}) <= 1
        /\ (Len(runs) = 2 /\ runs[2].state = "Succeeded" /\ opts.successFn) =>
              Cardinality({k \in DOMAIN trace : trace[k].ev = "successFn"}) = 1
        /\ opts.progressFn =>
              \A p \in DOMAIN trace :
                  (trace[p].ev = "executed" /\ trace[p].run = 2) =>
                      \E j \in (p + 1)..Len(trace) :
                          /\ trace[j].ev = "progressFn"
                          /\ trace[j].run = 2
                          /\ \A i \in (p + 1)..(j - 1) : trace[i].ev = "run.progressFn"
                          /\ trace[j].count =
                                 MainCount + Cardinality(Positions(2, {"executed"}, p))
                          /\ trace[j].total = MainCount + IndexCount

\* The caller's successFn was called after a main phase of three or more
\* statements and an index phase of two
C10_Witness ==
    /\ runs # <<>>
    /\ runs[1].kind = "main"
    /\ MainCount >= 3
    /\ IndexCount = 2
    /\ \E k \in DOMAIN trace : trace[k].ev = "successFn" /\ trace[k].count = MainCount + 2
    /\ \E k \in DOMAIN trace : trace[k].ev = "progressFn" /\ trace[k].run = 2

\* ------------------------------------------------------------------------
\* C11: when importJsonToDb is given a text that is not JSON, or a Document
\* (or a text holding one) whose compilation fails, the errorFn is invoked
\* exactly once with an error whose message wraps the message of the
\* underlying failure, and no statement is submitted to the backend: no
\* pipeline run is started, not even for the DROP and CREATE statements
\* compiled before the point of failure.
\* ------------------------------------------------------------------------
C11_ParseErrorReported ==
    (/\ db /\ op = "importJsonToDb" /\ pc = "returned"
     /\ \/ jsonText \in {SingleQuotedJsonText, TruncatedJsonText}
        \/ "data" \notin json.keys) =>
        /\ runs = <<>>
        /\ \A k \in DOMAIN trace : trace[k].ev \notin {"executeSql", "query"}
        /\ opts.errorFn =>
              /\ Len(trace) = 1
              /\ trace[1].ev = "errorFn"
              /\ trace[1].message =
                     <<"Failed to parse JSON structure to SQL: ">>
                     \o (CASE jsonText = SingleQuotedJsonText ->
                                <<"SyntaxError: Unexpected token ' in JSON at position 1">>
                           [] jsonText = TruncatedJsonText ->
                                <<"SyntaxError: Unexpected end of JSON input">>
                           [] OTHER -> <<"TypeError: json.data is undefined">>)

\* importJsonToDb has returned after it was given a text that is cut short,
\* and the errorFn was called
C11_Witness ==
    /\ db /\ op = "importJsonToDb" /\ pc = "returned"
    /\ jsonText = TruncatedJsonText
    /\ \E k \in DOMAIN trace : trace[k].ev = "errorFn"

\* ------------------------------------------------------------------------
\* C12: each of importSqlToDb, exportDbToSql, importJsonToDb, exportDbToJson
\* and wipeDb, called with a db that is no database, returns without
\* throwing, opens no transaction and submits no statement, and reports the
\* invalid handle exactly once: to the errorFn when the caller supplied one,
\* else to console.error.
\* ------------------------------------------------------------------------
C12_InvalidHandleReported ==
    (~db /\ pc # "start") =>
        /\ pc = "returned"
        /\ runs = <<>>
        /\ walk.state = "None"
        /\ Len(trace) = 1
        /\ trace[1].ev = (IF opts.errorFn THEN "errorFn" ELSE "console.error")
        /\ trace[1].message = InvalidDbMessage

\* ------------------------------------------------------------------------
\* C13: exportDbToSql, exportDbToJson and wipeDb, called with an errorFn,
\* never come to rest after a backend error for a catalog query or a table
\* row query without the errorFn (or the successFn) having been invoked.
\* ------------------------------------------------------------------------
C13_NoErrorDiscarded ==
    (/\ op \in {"exportDbToSql", "exportDbToJson", "wipeDb"}
     /\ opts.errorFn
     /\ Quiescent
     /\ \E k \in DOMAIN trace : trace[k].ev = "query.error") =>
        \E k \in DOMAIN trace : trace[k].ev \in {"errorFn", "successFn", "opts.successFn"}

\* ------------------------------------------------------------------------
\* C14: when the backend rejects statement i of a pipeline run, the error
\* passed to the errorFn carries the number of statements of the run that
\* succeeded before it, i - 1.
\* ------------------------------------------------------------------------
C14_ErrorCarriesCount ==
    \A k \in DOMAIN trace :
        (trace[k].ev = "rejected" /\ opts.errorFn) =>
            LET id == trace[k].run
                e == decorateError(trace[k].message, trace[k].statement)
            IN  /\ k + 1 <= Len(trace)
                /\ trace[k + 1].ev = "errorFn"
                /\ trace[k + 1].message = e.message
                /\ trace[k + 1].statement = e.statement
                /\ "count" \in DOMAIN e
                /\ e.count = Cardinality(Positions(id, {"executed"}, k))

\* ------------------------------------------------------------------------
\* C15: for an SQL text given to importSqlToDb whose literals and comments
\* are all closed, the tokenizer yields exactly the non-blank pieces between
\* the semicolons that lie outside every string literal and comment (k
\* pieces for k terminating semicolons, one more when text follows the
\* last): none is empty, and no piece ends at a semicolon inside a literal.
\* ------------------------------------------------------------------------
C15_SplitsAtSemicolons ==
    (/\ op = "importSqlToDb" /\ runs # <<>> /\ runs[1].state # "Pending"
     /\ lex(sql).closed) =>
        /\ Len(tokenize(sql)) = Len(lexStatements(sql))
        /\ \A i \in DOMAIN tokenize(sql) :
              /\ tokenize(sql)[i] # undefined
              /\ i <= Len(lexStatements(sql))
              /\ trimWhitespace(tokenize(sql)[i]) = lexStatements(sql)[i]

C18_NoReservedTableDropped ==
    op = "importJsonToDb" =>
        \A k \in DOMAIN trace :
            trace[k].ev = "executeSql" =>
                \A i \in DOMAIN json.tables :
                    ReservedName(json.tables[i].name) =>
                        ~NamesTable(trace[k].statement, json.tables[i].name)

\* ------------------------------------------------------------------------
\* C19: with a non-empty opts.tables, every DROP, CREATE and INSERT
\* statement of exportDbToSql, and every structure.tables entry, otherSQL
\* entry and data.inserts entry of exportDbToJson, belongs to a table named
\* in opts.tables; without opts.tables, or with an empty list, a complete
\* export holds the structure (unless dataOnly) and the rows (unless
\* structureOnly) of every table of the catalog that is not reserved.
\* ------------------------------------------------------------------------
C19_TableFilter ==
    op \in {"exportDbToSql", "exportDbToJson"} =>
        IF Filtered
        THEN /\ \A i \in DOMAIN catalog :
                   NamesTable(walk.exportSQL, catalog[i].tbl_name) =>
                       catalog[i].tbl_name \in FilterNames
             /\ \A i \in DOMAIN walk.json.tables : walk.json.tables[i].name \in FilterNames
             /\ \A i \in DOMAIN walk.json.inserts : walk.json.inserts[i].table \in FilterNames
             /\ \A i \in DOMAIN walk.json.otherSQL :
                   \E j \in DOMAIN catalog :
                       /\ catalog[j].sql = walk.json.otherSQL[i]
                       /\ catalog[j].tbl_name \in FilterNames
        ELSE walk.state = "Done" =>
                 \A i \in DOMAIN catalog :
                     (catalog[i].type = "table" /\ ~ReservedName(catalog[i].tbl_name)) =>
                         /\ ~opts.dataOnly => StructureExported(catalog[i])
                         /\ ~opts.structureOnly => RowsExported(catalog[i])

\* ------------------------------------------------------------------------
\* C20: the output of a complete export is a structure part and a data
\* part, and its count is the number of structure statements plus the number
\* of exported rows; with dataOnly there is no structure statement and no
\* structure section, so the count is the number of exported rows; with
\* structureOnly there is no row insert and no row query is submitted, so
\* the count is the number of structure statements.
\* ------------------------------------------------------------------------
C20_StructureAndData ==
    (op \in {"exportDbToSql", "exportDbToJson"} /\ walk.state = "Done") =>
        /\ walk.statementCount = StructureCount + RowCount
        /\ opts.dataOnly =>
              /\ StructureCount = 0
              /\ "structure" \notin walk.json.keys
              /\ walk.statementCount = RowCount
        /\ opts.structureOnly =>
              /\ RowCount = 0
              /\ \A k \in DOMAIN trace : ~IsRowsQuery(trace[k])
              /\ walk.statementCount = StructureCount

C20_Witness ==
    /\ op \in {"exportDbToSql", "exportDbToJson"}
    /\ walk.state = "Done"
    /\ opts.structureOnly
    /\ ~opts.dataOnly
    /\ walk.statementCount >= 3
    /\ \E i \in DOMAIN walk.sqlTables :
          \E j \in DOMAIN catalog :
              catalog[j].tbl_name = walk.sqlTables[i] /\ catalog[j].rows # <<>>

\* ------------------------------------------------------------------------
\* C21: exportDbToJson exports a stored text true as the boolean true,
\* false as the boolean false, null as the JSON null and every other value
\* unchanged; after importJsonToDb has inserted an exported value, a second
\* export yields the same typed value.
\* ------------------------------------------------------------------------
C21_TypedRoundTrip ==
    (op = "exportDbToJson" /\ walk.state = "Done") =>
        \A i \in DOMAIN walk.json.inserts :
            \A j \in DOMAIN catalog :
                (catalog[j].type = "table"
                    /\ catalog[j].tbl_name = walk.json.inserts[i].table) =>
                        /\ Len(walk.json.inserts[i].rows) = Len(catalog[j].rows)
                        /\ \A m \in DOMAIN catalog[j].rows :
                              \A c \in DOMAIN catalog[j].rows[m] :
                                  LET v == walk.json.inserts[i].rows[m][c].val
                                  IN  /\ v = TypedOf(catalog[j].rows[m][c].val)
                                      /\ ExportedAgain(v) = v

\* ------------------------------------------------------------------------
\* C22: a wipeDb that meets no backend error submits exactly one DROP TABLE
\* IF EXISTS statement for every table of the catalog that is not reserved
\* and no other statement; opts.successFn receives the number of tables
\* dropped, and receives 0 with no DROP submitted when the catalog holds no
\* such table.
\* ------------------------------------------------------------------------
C22_WipeDropsEveryTable ==
    (/\ op = "wipeDb" /\ db /\ Quiescent
     /\ \A k \in DOMAIN trace : trace[k].ev \notin {"rejected", "query.error"}) =>
        LET submitted == SelectSeq(trace, LAMBDA e : e.ev = "executeSql")
            reported == SelectSeq(trace, LAMBDA e : e.ev \in {"successFn", "opts.successFn"})
        IN  /\ Len(submitted) = Len(OrdinaryTables)
            /\ \A i \in DOMAIN submitted :
                  submitted[i].statement \in
                      {<<"DROP", " ", "TABLE", " ", "IF", " ", "EXISTS", " ">> \o target :
                          target \in {OrdinaryTables[i].tbl_name,
                                      <<backtick>> \o OrdinaryTables[i].tbl_name
                                          \o <<backtick>>}}
            /\ opts.successFn =>
                  /\ Len(reported) = 1
                  /\ reported[1].count = Len(OrdinaryTables)
                  /\ OrdinaryTables = <<>> => reported[1].ev = "opts.successFn"

\* ------------------------------------------------------------------------
\* C23: every statement of a pipeline run is submitted in the transaction
\* scope of that run, after the scope was opened; an import without index
\* statements has one scope; in a two-phase import the main statements are
\* submitted in the first scope and the index statements in a second one,
\* which is requested only after the last main statement has succeeded.
\* ------------------------------------------------------------------------
C23_TransactionScopes ==
    /\ Len(runs) <= 2
    /\ \A k \in DOMAIN trace :
          trace[k].ev = "executeSql" =>
              LET id == trace[k].run
                  nth == Cardinality(Positions(id, {"executeSql"}, k))
              IN  /\ id \in DOMAIN runs
                  /\ runs[id].state # "Pending"
                  /\ nth <= Len(statementRegEx(removeComments(runs[id].sql)))
                  /\ trace[k].statement =
                         trimWhitespace(statementRegEx(removeComments(runs[id].sql))[nth])
    /\ \A id \in DOMAIN runs :
          /\ runs[id].kind = "direct" => Len(runs) = 1
          /\ runs[id].kind = "main" =>
                /\ id = 1
                /\ runs[id].sql = compile(json, opts).mainSql
          /\ runs[id].kind = "deferred" =>
                /\ id = 2
                /\ runs[1].kind = "main"
                /\ runs[id].sql = compile(json, opts).createIndexSql
                /\ runs[1].state = "Succeeded"
                /\ Len(EventsOf(1, {"executed"}))
                       = Len(statementRegEx(removeComments(runs[1].sql)))
                /\ \A k \in Positions(1, {"executeSql", "executed"}, Len(trace)) :
                      \A l \in Positions(2, {"executeSql", "executed"}, Len(trace)) : k < l

\* Both scopes of a two-phase import have had statements submitted
C23_Witness ==
    /\ Len(runs) = 2
    /\ runs[2].state = "Succeeded"
    /\ Len(EventsOf(1, {"executeSql"})) >= 2
    /\ Len(EventsOf(2, {"executeSql"})) >= 1

\* ------------------------------------------------------------------------
\* C24: exportDbToSql and exportDbToJson invoke opts.successFn exactly
\* once, as the last step of the export and only after the rows of every
\* qualifying table were read; the tables are read one at a time in catalog
\* order, each row query submitted only after the previous query was
\* answered; the structure part of the output precedes the data part.
\* ------------------------------------------------------------------------
C24_SuccessAfterWalk ==
    op \in {"exportDbToSql", "exportDbToJson"} =>
        LET called == {k \in DOMAIN trace : trace[k].ev = "opts.successFn"}
            asked == {k \in DOMAIN trace : IsRowsQuery(trace[k])}
            read == SelectSeq(trace, LAMBDA e :
                        /\ IsRowsQuery(e)
                        /\ ~ReservedName(RowsQueryTable(e)))
        IN  /\ Cardinality(called) <= 1
            /\ (walk.state = "Done" /\ opts.successFn) => called = {Len(trace)}
            /\ \A k \in called :
                  /\ walk.state = "Done"
                  /\ trace[k].count = walk.statementCount
                  /\ ~opts.structureOnly =>
                        /\ Len(read) = Len(QualifyingTables)
                        /\ \A l \in asked : l + 1 < k /\ trace[l + 1].ev = "query.success"
            /\ Len(read) <= Len(QualifyingTables)
            /\ \A i \in DOMAIN read : RowsQueryTable(read[i]) = QualifyingTables[i].tbl_name
            /\ \A l \in asked :
                  /\ trace[l - 1].ev = "query.success"
                  /\ \E s \in 1..(l - 1) :
                        /\ trace[s].ev = "query.success"
                        /\ ~IsRowsQuery(trace[s - 1])
            /\ StructureCount > 0 /\ RowCount > 0 /\ op = "exportDbToSql" =>
                  LastOf(walk.exportSQL, <<"CREATE", " ">>)
                      < indexOf(walk.exportSQL,
                                <<"INSERT", " ", "OR", " ", "REPLACE", " ", "INTO", " ">>)

\* A complete export of two or more tables with rows has reported success
C24_Witness ==
    /\ op \in {"exportDbToSql", "exportDbToJson"}
    /\ walk.state = "Done"
    /\ \E k \in DOMAIN trace : trace[k].ev = "opts.successFn"
    /\ Cardinality({k \in DOMAIN trace : IsRowsQuery(trace[k])}) >= 2
    /\ StructureCount > 0
    /\ RowCount >= 2

\* ------------------------------------------------------------------------
\* C25: in the main sequence of importJsonToDb the table-structure
\* statements come before the otherSQL statements that create no index,
\* these before the INSERT statements, these before the UPDATE statements
\* and these before the DELETE statements.
\* ------------------------------------------------------------------------
C25_MainSequenceOrder ==
    op = "importJsonToDb" =>
        \A k, l \in DOMAIN trace :
            (/\ k < l
             /\ trace[k].ev = "executeSql" /\ trace[l].ev = "executeSql"
             /\ trace[k].run = 1 /\ trace[l].run = 1) =>
                SectionOf(trace[k].statement) <= SectionOf(trace[l].statement)

\* ------------------------------------------------------------------------
\* C26: for the tables of structure.tables, in their order, importJsonToDb
\* executes DROP TABLE IF EXISTS T and, right after it, CREATE TABLE T with
\* the column clause of T; both come before every INSERT, UPDATE and DELETE
\* statement, those for T included.
\* ------------------------------------------------------------------------
C26_DropThenCreate ==
    (op = "importJsonToDb" /\ runs # <<>>) =>
        LET tables == IF {"structure", "tables"} \subseteq json.keys THEN json.tables ELSE <<>>
            submitted == EventsOf(1, {"executeSql"})
        IN  /\ \A i \in DOMAIN tables :
                  /\ 2 * i - 1 <= Len(submitted) =>
                        \E target \in Written(tables[i].name) :
                            submitted[2 * i - 1].statement =
                                <<"DROP", " ", "TABLE", " ", "IF", " ", "EXISTS", " ">> \o target
                  /\ 2 * i <= Len(submitted) =>
                        \E target \in Written(tables[i].name) :
                            submitted[2 * i].statement =
                                <<"CREATE", " ", "TABLE", " ">> \o target \o tables[i].clause
            /\ \A p \in DOMAIN submitted :
                  SectionOf(submitted[p].statement) \in {3, 4, 5} => p > 2 * Len(tables)
            /\ runs[1].state = "Succeeded" =>
                  Len(EventsOf(1, {"executed"})) >= 2 * Len(tables)

\* Two tables were dropped and created and data statements for both executed
C26_Witness ==
    /\ op = "importJsonToDb"
    /\ json \in TwoTableDocs
    /\ runs # <<>>
    /\ runs[1].state = "Succeeded"
    /\ Len(EventsOf(1, {"executed"})) >= 8

\* ------------------------------------------------------------------------
\* C27: an otherSQL entry is executed in the deferred run if and only if it
\* creates an index, every other entry (CREATE VIEW) in the main run; the
\* entries of each group are executed in their otherSQL order, and every
\* entry of the main group before any entry of the deferred group.
\* ------------------------------------------------------------------------
C27_OtherSqlRouting ==
    (op = "importJsonToDb" /\ "otherSQL" \in json.keys) =>
        LET entries == {json.otherSQL[i] : i \in DOMAIN json.otherSQL}
            executedOf(S) ==
                SelectSeq(trace, LAMBDA e : e.ev = "executeSql" /\ e.statement \in S)
            mainGroup == SelectSeq(json.otherSQL, LAMBDA c : c \notin IndexCommands)
            indexGroup == SelectSeq(json.otherSQL, LAMBDA c : c \in IndexCommands)
            inMain == executedOf(entries \ IndexCommands)
            inIndex == executedOf(entries \cap IndexCommands)
        IN  /\ \A k \in DOMAIN trace :
                  (trace[k].ev = "executeSql" /\ trace[k].statement \in entries) =>
                      (runs[trace[k].run].kind = "deferred"
                          <=> trace[k].statement \in IndexCommands)
            /\ Len(inMain) <= Len(mainGroup)
            /\ \A i \in DOMAIN inMain : inMain[i].statement = mainGroup[i]
            /\ Len(inIndex) <= Len(indexGroup)
            /\ \A i \in DOMAIN inIndex : inIndex[i].statement = indexGroup[i]
            /\ inIndex # <<>> => Len(inMain) = Len(mainGroup)
            /\ \A k, l \in DOMAIN trace :
                  (/\ trace[k].ev = "executeSql" /\ trace[l].ev = "executeSql"
                   /\ trace[k].statement \in entries \ IndexCommands
                   /\ trace[l].statement \in entries \cap IndexCommands) => k < l

\* ------------------------------------------------------------------------
\* C28: a pipeline run goes from Pending to Running and from there to
\* Succeeded or Failed, where it stays: its successFn and its error report
\* are each invoked at most once and never both, and after either of them
\* the run submits no statement and delivers no progress notification.
\* ------------------------------------------------------------------------
C28_RunStateMachine ==
    \A id \in DOMAIN runs :
        LET succeeded == Positions(id, {"run.successFn"}, Len(trace))
            failed == Positions(id, {"errorFn", "console.error"}, Len(trace))
        IN  /\ Cardinality(succeeded) <= 1
            /\ Cardinality(failed) <= 1
            /\ succeeded = {} \/ failed = {}
            /\ succeeded # {} => runs[id].state = "Succeeded"
            /\ failed # {} => runs[id].state = "Failed"
            /\ runs[id].state = "Pending" =>
                  Positions(id, {"executeSql", "executed", "rejected", "run.progressFn",
                                 "run.successFn", "errorFn", "console.error"},
                            Len(trace)) = {}
            /\ runs[id].state \in {"Succeeded", "Failed"} =>
                  /\ ~runs[id].inflight
                  /\ hasSuccessFn(runs[id]) => (runs[id].state = "Succeeded" <=> succeeded # {})
                  /\ runs[id].state = "Failed" <=> failed # {}
            /\ \A k \in succeeded \cup failed :
                  \A l \in (k + 1)..Len(trace) :
                      trace[l].run = id =>
                          trace[l].ev \notin {"executeSql", "executed", "rejected",
                                              "run.progressFn", "progressFn"}

\* A run has failed after progress was delivered, with statements left
C28_Witness ==
    \E id \in DOMAIN runs :
        /\ runs[id].state = "Failed"
        /\ runs[id].statements # <<>>
        /\ Positions(id, {"run.progressFn"}, Len(trace)) # {}
        /\ Positions(id, {"errorFn"}, Len(trace)) # {}

\* ------------------------------------------------------------------------
\* C29: in every section of the Document a null or absent value compiles
\* to an unquoted NULL and a string, the string null in any letter case
\* included, to a quoted literal: the statements of a successful import
\* hold  <literal> AS '<col>'  for the fields of the first insert row of a
\* table and  <col>=<literal>  for the fields of the set and where objects
\* of every update entry and of every delete entry.
\* ------------------------------------------------------------------------
C29_NullAndNullString ==
    (ImportOver /\ runs[1].state = "Succeeded") =>
        LET submitted(prefix, tableName, piece) ==
                \E k \in DOMAIN trace :
                    /\ trace[k].ev = "executeSql"
                    /\ \E target \in Written(tableName) :
                          StartsWith(trace[k].statement, prefix \o target)
                    /\ indexOf(trace[k].statement, piece) # 0
            term(f) == f.col \o <<"=">> \o SqlLiteral(f.val)
        IN  /\ "inserts" \in json.keys =>
                  \A t \in DOMAIN json.inserts :
                      json.inserts[t].rows # <<>> =>
                          \A c \in DOMAIN json.inserts[t].rows[1] :
                              LET f == json.inserts[t].rows[1][c]
                              IN  submitted(<<"INSERT", " ", "OR", " ", "REPLACE", " ", "INTO", " ">>,
                                            json.inserts[t].table,
                                            SqlLiteral(f.val) \o <<" ", "AS", " ", "'">>
                                                \o f.col \o <<"'">>)
            /\ "updates" \in json.keys =>
                  \A t \in DOMAIN json.updates :
                      \A i \in DOMAIN json.updates[t].entries :
                          LET entry == json.updates[t].entries[i]
                          IN  /\ \A c \in DOMAIN entry.set :
                                    submitted(<<"UPDATE", " ">>, json.updates[t].table,
                                              term(entry.set[c]))
                              /\ \A c \in DOMAIN entry.where :
                                    submitted(<<"UPDATE", " ">>, json.updates[t].table,
                                              term(entry.where[c]))
            /\ "deletes" \in json.keys =>
                  \A t \in DOMAIN json.deletes :
                      \A i \in DOMAIN json.deletes[t].entries :
                          \A c \in DOMAIN json.deletes[t].entries[i] :
                              submitted(<<"DELETE", " ", "FROM", " ">>, json.deletes[t].table,
                                        term(json.deletes[t].entries[i][c]))

C31_ColumnClauseOnly ==
    (op = "exportDbToJson" /\ walk.state = "Done") =>
        \A i \in DOMAIN walk.json.tables :
            \A j \in DOMAIN catalog :
                (catalog[j].type = "table"
                    /\ catalog[j].tbl_name = walk.json.tables[i].name) =>
                        /\ walk.json.tables[i].clause = ColumnClauseOf(catalog[j].sql)
                        /\ CountOf(TablesSql(<<walk.json.tables[i]>>), CreateTable) = 1

\* ------------------------------------------------------------------------
\* C32: a table or column name that holds an underscore or a hyphen is
\* written between back-ticks in the INSERT statements of exportDbToSql,
\* and in the same form in every statement importJsonToDb compiles: in no
\* submitted statement does such a name of the Document stand without its
\* back-ticks.
\* ------------------------------------------------------------------------
C32_SameDelimitedForm ==
    /\ op = "exportDbToSql" =>
          \A ident \in CatalogIdentifiers :
              NeedsDelimiting(ident) => ~StandsPlain(InsertPart(walk.exportSQL), ident)
    /\ op = "importJsonToDb" =>
          \A k \in DOMAIN trace :
              trace[k].ev = "executeSql" =>
                  \A ident \in DocumentIdentifiers :
                      NeedsDelimiting(ident) => ~StandsPlain(trace[k].statement, ident)

\* ------------------------------------------------------------------------
\* C33: for every table and column name x the operations handle,
\* sqlUnescape(sqlEscape(x)) = x, and sqlEscape(x) = x exactly when x holds
\* no underscore and no hyphen.
\* ------------------------------------------------------------------------
C33_EscapeRoundTrip ==
    pc # "start" =>
        \A x \in CatalogIdentifiers \cup DocumentIdentifiers :
            /\ sqlUnescape(sqlEscape(x)) = x
            /\ sqlEscape(x) = x <=> ~NeedsDelimiting(x)

\* ------------------------------------------------------------------------
\* C34: in a two-phase importJsonToDb run over m main and d index
\* statements every progress notification the caller receives, those of
\* the main phase included, carries the total m + d, which is also the
\* count passed to successFn, and the current counts are 1, 2, ... in the
\* order of the notifications.
\* ------------------------------------------------------------------------
C34_OneProgressStream ==
    (op = "importJsonToDb" /\ runs # <<>> /\ runs[1].kind = "main") =>
        LET total == Len(statementRegEx(removeComments(compile(json, opts).mainSql)))
                     + Len(statementRegEx(removeComments(compile(json, opts).createIndexSql)))
            notified == SelectSeq(trace, LAMBDA e : e.ev = "progressFn")
        IN  /\ \A i \in DOMAIN notified :
                  /\ notified[i].count = i
                  /\ notified[i].total = total
            /\ \A k \in DOMAIN trace : trace[k].ev = "successFn" => trace[k].count = total

\* ------------------------------------------------------------------------
\* C35: for every Document, with values that hold semicolons, quotes,
\* backslashes, comment markers or line breaks, the statements a run of
\* importJsonToDb submits are the statements the compiler wrote into the
\* text of the run, in order and unaltered: none is split, merged, dropped
\* or changed by joining and tokenizing again.
\* ------------------------------------------------------------------------
C35_CompiledStatementsSubmitted ==
    op = "importJsonToDb" =>
        \A id \in DOMAIN runs :
            LET submitted == EventsOf(id, {"executeSql"})
                compiled == lexStatements(runs[id].sql)
            IN  /\ lex(runs[id].sql).closed
                /\ Len(submitted) <= Len(compiled)
                /\ \A i \in DOMAIN submitted : submitted[i].statement = compiled[i]
                /\ runs[id].state = "Succeeded" => Len(submitted) = Len(compiled)
                /\ runs[id].state # "Aborted"

\* A statement with a WHERE clause that holds at least one condition
HasCondition(statement) ==
    \E k \in DOMAIN statement :
        /\ statement[k] = "WHERE"
        /\ \E j \in (k + 1)..Len(statement) : statement[j] = "="

\* C36: every DELETE and every UPDATE statement that importJsonToDb compiles
\* and submits has a WHERE clause with at least one condition, so none
\* affects all rows of its table
C36_EveryChangeConditioned ==
    op = "importJsonToDb" =>
        \A i \in DOMAIN trace :
            (trace[i].ev = "executeSql"
             /\ (StartsWith(trace[i].statement, <<"DELETE">>)
                 \/ StartsWith(trace[i].statement, <<"UPDATE">>)))
                => HasCondition(trace[i].statement)

\* The data phase of the export read the rows of a table of the catalog
RowsWalked(row) ==
    \E k \in DOMAIN trace : IsRowsQuery(trace[k]) /\ RowsQueryTable(trace[k]) = row.tbl_name

\* The output of the export holds rows of a table of the catalog: INSERT
\* statements for its rows, or a data.inserts entry
DataExported(row) ==
    IF op = "exportDbToSql"
    THEN row.rows # <<>> /\ RowsExported(row)
    ELSE \E i \in DOMAIN walk.json.inserts : walk.json.inserts[i].table = row.tbl_name

\* C37: in a full export the structure phase and the data phase select the
\* same tables: a table of the catalog whose rows are exported has its
\* structure exported, and one whose structure is exported has its rows
\* walked
C37_SameTablesInBothPhases ==
    (op \in {"exportDbToSql", "exportDbToJson"} /\ walk.state = "Done"
     /\ ~opts.dataOnly /\ ~opts.structureOnly) =>
        \A i \in DOMAIN catalog :
            catalog[i].type = "table" =>
                /\ DataExported(catalog[i]) => StructureExported(catalog[i])
                /\ StructureExported(catalog[i]) => RowsWalked(catalog[i])

\* C38: when the backend answers every submitted statement, a started run
\* over n statements ends Succeeded or Failed, and it submits at most n
\* statements, each position of its statement sequence at most once
C38_RunTerminates ==
    /\ [](\A id \in DOMAIN runs :
            Len(EventsOf(id, {"executeSql"})) <= runs[id].totalCount)
    /\ \A id \in RunIds :
          (id \in DOMAIN runs /\ runs[id].state = "Running")
              ~> (id \in DOMAIN runs /\ runs[id].state \in {"Succeeded", "Failed"})
====
